---- MODULE Spec2Model ----
(***************************************************************************)
(* State-machine model of plastid/genomics/genome_array.py: the mutable    *)
(* dense array (GenomeArray) and the mutable sparse array                  *)
(* (SparseGenomeArray), their get/set/sum/normalize/import operations and  *)
(* the elementwise combination of two dense arrays.                        *)
(*                                                                         *)
(* Numbers.  numpy stores float64.  A float is modelled by the exact       *)
(* rational <<n, d>> in lowest terms with d > 0, and the non-finite floats *)
(* by d = 0: <<0,0>> is nan, <<1,0>> is inf and <<-1,0>> is -inf.          *)
(*                                                                         *)
(* Buffers.  One numpy.ndarray (dense) or one 1 x len dok_matrix (sparse)  *)
(* is the record [len, nz]: its length and the function from the positions *)
(* holding a nonzero value to that value; every other position below len   *)
(* holds 0.                                                                *)
(***************************************************************************)
EXTENDS Integers, Sequences, FiniteSets, TLC

VARIABLES
    arr,    \* the array under test (a GenomeArray or a SparseGenomeArray)
    ref,    \* the same array driven by the same calls minus set_normalize
    other,  \* second operand of apply_operation
    out,    \* array returned by the last apply_operation
    last    \* the last call: its arguments, result and raised exception

vars == <<arr, ref, other, out, last>>

----------------------------------------------------------------------------
(* float64 arithmetic *)

Abs(x) == IF x < 0 THEN -x ELSE x

Sign(x) == IF x > 0 THEN 1 ELSE IF x < 0 THEN -1 ELSE 0

Min(a, b) == IF a < b THEN a ELSE b

Max(a, b) == IF a > b THEN a ELSE b

RECURSIVE GCD(_, _)
GCD(a, b) == IF b = 0 THEN a ELSE GCD(b, a % b)

Float(n, d) ==
    IF d = 0 THEN <<Sign(n), 0>>
    ELSE LET g == GCD(Abs(n), Abs(d))
         IN  <<Sign(d) * Sign(n) * (Abs(n) \div g), Abs(d) \div g>>

Num(k) == <<k, 1>>

Zero == <<0, 1>>

NaN == <<0, 0>>

IsFinite(x) == x[2] # 0

FAdd(x, y) ==
    IF IsFinite(x) /\ IsFinite(y)
    THEN Float(x[1] * y[2] + y[1] * x[2], x[2] * y[2])
    ELSE IF x = NaN \/ y = NaN THEN NaN
    ELSE IF ~IsFinite(x) /\ ~IsFinite(y) THEN (IF x = y THEN x ELSE NaN)
    ELSE IF ~IsFinite(x) THEN x ELSE y

FMul(x, y) ==
    IF IsFinite(x) /\ IsFinite(y)
    THEN Float(x[1] * y[1], x[2] * y[2])
    ELSE IF x = NaN \/ y = NaN \/ x[1] = 0 \/ y[1] = 0 THEN NaN
    ELSE <<Sign(x[1]) * Sign(y[1]), 0>>

FDiv(x, y) ==
    IF x = NaN \/ y = NaN THEN NaN
    ELSE IF ~IsFinite(x)
         THEN (IF ~IsFinite(y) THEN NaN
               ELSE <<x[1] * (IF y[1] < 0 THEN -1 ELSE 1), 0>>)
    ELSE IF ~IsFinite(y) THEN Zero
    ELSE IF y[1] = 0 THEN <<Sign(x[1]), 0>>
    ELSE Float(x[1] * y[2], x[2] * y[1])

Reverse(v) == LET n == Len(v) IN [i \in 1..n |-> v[n + 1 - i]]

----------------------------------------------------------------------------
(* program constants *)

\* MIN_CHR_SIZE: the default first guess of a chromosome's size
MIN_CHR_SIZE == 10000000

\* the slack added on every resize
GrowMargin == 10000

\* reads-per-million factor
PerMillion == 1000000

_DEFAULT_STRANDS == <<"+", "-">>

None == <<>>

----------------------------------------------------------------------------
(* buffers *)

EmptyNZ == [p \in {} |-> Zero]

\* numpy.zeros(l) / scipy.sparse.dok_matrix((1,l))
zeros(l) == [len |-> l, nz |-> EmptyNZ]

At(buf, p) == IF p \in DOMAIN buf.nz THEN buf.nz[p] ELSE Zero

\* buf[start:end]: a slice is clipped to the buffer, never an error
Slice(buf, start, end) ==
    LET lo == Min(start, buf.len)
        hi == Min(end, buf.len)
    IN  [i \in 1..(hi - lo) |-> At(buf, lo + i - 1)]

\* the values vals written at positions start, start+1, ...
Store(buf, start, vals) ==
    LET hi   == start + Len(vals)
        keep == {p \in DOMAIN buf.nz : p < start \/ p >= hi}
        put  == {p \in start..(hi - 1) : vals[p - start + 1] # Zero}
    IN  [buf EXCEPT !.nz = [p \in keep \cup put |->
                               IF p >= start /\ p < hi THEN vals[p - start + 1]
                               ELSE buf.nz[p]]]

\* buf[start:end] = val, val a scalar or a vector: numpy broadcasts a scalar
\* and a vector of length 1, takes a vector of the slice's length, and raises
\* ValueError for any other vector
SliceAssign(buf, start, end, val) ==
    LET lo == Min(start, buf.len)
        hi == Min(end, buf.len)
        m  == hi - lo
    IN  IF val.scalar \/ Len(val.v) = 1
        THEN [ok |-> TRUE, buf |-> Store(buf, lo, [i \in 1..m |-> val.v[1]])]
        ELSE IF Len(val.v) = m
        THEN [ok |-> TRUE, buf |-> Store(buf, lo, val.v)]
        ELSE [ok |-> FALSE, buf |-> buf]

\* a mutant of resize: the copy is not filled from the old buffer
resize_dropping(buf, n) == zeros(n)

\* ndarray.resize(n) / dok_matrix.resize((1,n)): contents kept, zero padded
resize(buf, n) ==
    [len |-> n, nz |-> [p \in {q \in DOMAIN buf.nz : q < n} |-> buf.nz[p]]]

----------------------------------------------------------------------------
(* arrays *)

\* GenomeArray.__init__ / SparseGenomeArray.__init__: chr_lengths is the
\* chromosome-length map (the empty map when none is given)
NewArray(kind, chr_lengths, strands, min_chr_size) ==
    [kind         |-> kind,
     strands      |-> strands,
     min_chr_size |-> min_chr_size,
     sum          |-> None,
     normalize    |-> FALSE,
     chroms       |-> [c \in DOMAIN chr_lengths |->
                         [s \in {strands[i] : i \in 1..Len(strands)} |->
                             zeros(chr_lengths[c])]]]

\* AbstractGenomeArray.strands, as a set
StrandSet(a) == {a.strands[i] : i \in 1..Len(a.strands)}

\* AbstractGenomeArray.chroms / GenomeArray.keys
keys(a) == DOMAIN a.chroms

\* every (chromosome, strand, position) holding a nonzero value
Cells(a) ==
    {<<c, s, p>> \in keys(a) \X StrandSet(a) \X
                     UNION {DOMAIN a.chroms[c][s].nz : c \in keys(a), s \in StrandSet(a)} :
        p \in DOMAIN a.chroms[c][s].nz}

RECURSIVE SumCells(_, _)
SumCells(a, S) ==
    IF S = {} THEN Zero
    ELSE LET x == CHOOSE y \in S : TRUE
         IN  FAdd(a.chroms[x[1]][x[2]].nz[x[3]], SumCells(a, S \ {x}))

\* GenomeArray.reset_sum: the sum of every chromosome-strand buffer
reset_sum(a) == [a EXCEPT !.sum = SumCells(a, Cells(a))]

\* AbstractGenomeArray.sum: the cached value, recomputed when it is None
sum(a) ==
    LET a1 == IF a.sum = None THEN reset_sum(a) ELSE a
    IN  [a |-> a1, value |-> a1.sum]

\* AbstractGenomeArray.set_sum
set_sum(a, val) == [a EXCEPT !.sum = val]

\* AbstractGenomeArray.set_normalize
set_normalize(a, value) == [a EXCEPT !.normalize = value]

\* a mutant of invalidate_sum: the cached sum survives the mutation
invalidate_sum_kept(a) == a

\* self._sum = None, the first statement of __setitem__ and the last of the
\* two imports
invalidate_sum(a) == [a EXCEPT !.sum = None]

\* AbstractGenomeArray.lengths / SparseGenomeArray.lengths: per chromosome,
\* the longest strand buffer
lengths(a) ==
    [c \in keys(a) |->
        LET ls == {a.chroms[c][s].len : s \in StrandSet(a)}
        IN  CHOOSE l \in ls : \A k \in ls : k <= l]

\* the buffers of a chromosome touched for the first time
new_chrom(a, chrom) ==
    [a EXCEPT !.chroms = (chrom :> [s \in StrandSet(a) |-> zeros(a.min_chr_size)])
                         @@ a.chroms]

\* a mutant of grow: only the accessed strand is resized
grow_one_strand(a, chrom, strand, new_size) ==
    [a EXCEPT !.chroms[chrom][strand] = resize(a.chroms[chrom][strand], new_size)]

\* the resize loop: every strand of the chromosome is copied and resized
grow(a, chrom, strand, new_size) ==
    [a EXCEPT !.chroms[chrom] =
        [s \in StrandSet(a) |-> resize(a.chroms[chrom][s], new_size)]]

\* a mutant of roi_ordered: the vector is left in genome order
roi_ordered_never(vals, strand, roi_order) == vals

\* vals[::-1] for a minus-strand interval in interval-relative order
roi_ordered(vals, strand, roi_order) ==
    IF roi_order /\ strand = "-" THEN Reverse(vals) ELSE vals

\* a mutant of genome_ordered: a vector is stored as it is handed in
genome_ordered_never(val, strand, roi_order) == val

\* __setitem__: a vector for a minus-strand interval is reversed into genome
\* order before it is stored; a scalar is not
genome_ordered(val, strand, roi_order) ==
    IF strand = "-" /\ ~val.scalar /\ roi_order
    THEN [val EXCEPT !.v = Reverse(val.v)]
    ELSE val

\* a mutant of normalized: the per-million factor is left out
normalized_no_factor(kind, vals, s) ==
    [i \in 1..Len(vals) |-> FDiv(vals[i], s)]

\* 1e6 * vals / self.sum(). numpy divides every element (0/0 is nan); scipy
\* scales the stored entries only, so a position holding no entry stays 0.
normalized(kind, vals, s) ==
    [i \in 1..Len(vals) |->
        IF kind = "sparse" /\ vals[i] = Zero THEN Zero
        ELSE FDiv(FMul(Num(PerMillion), vals[i]), s)]

\* what a call hands back: the array afterwards, the returned vector, the
\* exception raised ("none" when the call returns) and whether it resized
Outcome(a, res, exc, resized) ==
    [a |-> a, res |-> res, exc |-> exc, resized |-> resized]

\* the values read by __getitem__ once the buffers are in place
read_values(a, chrom, strand, start, end, roi_order, resized) ==
    LET raw == Slice(a.chroms[chrom][strand], start, end)
        sm  == sum(a)
    IN  IF a.normalize
        THEN Outcome(sm.a,
                     roi_ordered(normalized(a.kind, raw, sm.value), strand, roi_order),
                     "none", resized)
        ELSE Outcome(a, roi_ordered(raw, strand, roi_order), "none", resized)

\* GenomeArray.__getitem__ for a GenomicSegment
GenomeArray_getitem(a, chrom, strand, start, end, roi_order) ==
    IF chrom \in keys(a) /\ strand \in DOMAIN a.chroms[chrom]
    THEN LET my_len == a.chroms[chrom][strand].len
         IN  IF end < my_len
             THEN read_values(a, chrom, strand, start, end, roi_order, FALSE)
             ELSE \* except AssertionError
                  read_values(grow(a, chrom, strand,
                                   Max(my_len + GrowMargin, end + GrowMargin)),
                              chrom, strand, start, end, roi_order, TRUE)
    ELSE \* except KeyError
         IF strand \notin StrandSet(a)
         THEN Outcome(a, <<>>, "AssertionError", FALSE)
         ELSE read_values(IF chrom \notin keys(a) THEN new_chrom(a, chrom) ELSE a,
                          chrom, strand, start, end, roi_order, FALSE)

\* the assignment and the restoring of the flag that end __setitem__
write_values(a, chrom, strand, start, end, val, old_normalize, resized) ==
    LET w == SliceAssign(a.chroms[chrom][strand], start, end, val)
    IN  IF w.ok
        THEN Outcome(set_normalize([a EXCEPT !.chroms[chrom][strand] = w.buf],
                                   old_normalize),
                     <<>>, "none", resized)
        ELSE Outcome(a, <<>>, "ValueError", resized)

\* a mutant of GenomeArray.__setitem__: the strand is not checked, and a
\* value for a strand the array does not have goes to its first strand
GenomeArray_setitem_any_strand(a, chrom, strand, start, end, value, roi_order) ==
    write_values(IF chrom \in keys(a) THEN a ELSE new_chrom(a, chrom),
                 chrom,
                 IF strand \in StrandSet(a) THEN strand ELSE a.strands[1],
                 start, end, genome_ordered(value, strand, roi_order),
                 a.normalize, FALSE)

\* GenomeArray.__setitem__ for a GenomicSegment
GenomeArray_setitem(a, chrom, strand, start, end, value, roi_order) ==
    LET old_normalize == a.normalize
        a0  == set_normalize(invalidate_sum(a), FALSE)
        val == genome_ordered(value, strand, roi_order)
    IN  IF chrom \in keys(a0) /\ strand \in DOMAIN a0.chroms[chrom]
        THEN LET my_len == a0.chroms[chrom][strand].len
             IN  IF end < my_len
                 THEN write_values(a0, chrom, strand, start, end, val,
                                   old_normalize, FALSE)
                 ELSE write_values(grow(a0, chrom, strand,
                                        Max(my_len + GrowMargin, end + GrowMargin)),
                                   chrom, strand, start, end, val,
                                   old_normalize, TRUE)
        ELSE IF strand \notin StrandSet(a0)
             THEN Outcome(a0, <<>>, "AssertionError", FALSE)
             ELSE write_values(IF chrom \notin keys(a0) THEN new_chrom(a0, chrom)
                               ELSE a0,
                               chrom, strand, start, end, val, old_normalize, FALSE)

\* SparseGenomeArray.__getitem__ for a GenomicSegment
SparseGenomeArray_getitem(a, chrom, strand, start, end, roi_order) ==
    LET a1 == IF chrom \notin keys(a) THEN new_chrom(a, chrom) ELSE a
    IN  IF strand \notin DOMAIN a1.chroms[chrom]
        THEN Outcome(a1, <<>>, "KeyError", FALSE)
        ELSE IF end > a1.chroms[chrom][strand].len
        THEN read_values(grow(a1, chrom, strand, end + GrowMargin),
                         chrom, strand, start, end, roi_order, TRUE)
        ELSE read_values(a1, chrom, strand, start, end, roi_order, FALSE)

\* SparseGenomeArray.__setitem__ for a GenomicSegment
SparseGenomeArray_setitem(a, chrom, strand, start, end, value, roi_order) ==
    LET old_normalize == a.normalize
        val == genome_ordered(value, strand, roi_order)
        a0  == set_normalize(invalidate_sum(a), FALSE)
        a1  == IF chrom \notin keys(a0) THEN new_chrom(a0, chrom) ELSE a0
    IN  IF strand \notin DOMAIN a1.chroms[chrom]
        THEN Outcome(a1, <<>>, "KeyError", FALSE)
        ELSE IF end > a1.chroms[chrom][strand].len
        THEN write_values(grow(a1, chrom, strand, end + GrowMargin),
                          chrom, strand, start, end, val, old_normalize, TRUE)
        ELSE write_values(a1, chrom, strand, start, end, val, old_normalize, FALSE)

\* self[roi], dispatched on the class of the array
getitem(a, chrom, strand, start, end, roi_order) ==
    IF a.kind = "dense"
    THEN GenomeArray_getitem(a, chrom, strand, start, end, roi_order)
    ELSE SparseGenomeArray_getitem(a, chrom, strand, start, end, roi_order)

\* self[seg] = val, dispatched on the class of the array
setitem(a, chrom, strand, start, end, value, roi_order) ==
    IF a.kind = "dense"
    THEN GenomeArray_setitem(a, chrom, strand, start, end, value, roi_order)
    ELSE SparseGenomeArray_setitem(a, chrom, strand, start, end, value, roi_order)

----------------------------------------------------------------------------
(* mapping rules: an alignment is the record [chrom, start, end, strand] of
   its spanning segment; a rule returns a sequence of <<segment, value>> *)

Segment(chrom, start, end, strand) ==
    [chrom |-> chrom, start |-> start, end |-> end, strand |-> strand]

\* a mutant of five_prime_map: the offset is counted from the start of the
\* alignment on every strand
five_prime_map_from_start(feature, offset, value) ==
    IF offset > feature.end - feature.start THEN <<>>
    ELSE <<<<Segment(feature.chrom, feature.start + offset,
                     feature.start + offset + 1, feature.strand), value>>>>

five_prime_map(feature, offset, value) ==
    LET read_length == feature.end - feature.start
        start == IF feature.strand \in {"+", "."}
                 THEN feature.start + offset
                 ELSE feature.end - 1 - offset
    IN  IF offset > read_length THEN <<>>
        ELSE <<<<Segment(feature.chrom, start, start + 1, feature.strand), value>>>>

three_prime_map(feature, offset, value) ==
    LET read_length == feature.end - feature.start
        start == IF feature.strand \in {"+", "."}
                 THEN feature.end - 1 - offset
                 ELSE feature.start + offset
    IN  IF offset > read_length THEN <<>>
        ELSE <<<<Segment(feature.chrom, start, start + 1, feature.strand), value>>>>

\* mapfunc(feature, **trans_args)
mapfunc(rule, feature, offset, value) ==
    IF rule = "five_prime_map" THEN five_prime_map(feature, offset, value)
    ELSE three_prime_map(feature, offset, value)

\* kwargs.get(key, default): kwargs is the function from the names of the
\* keyword arguments passed to their values
kwargs_get(kwargs, key, default) ==
    IF key \in DOMAIN kwargs THEN kwargs[key] ELSE default

\* the outcome of calling a mapping rule
RuleOutcome(res, exc) == [res |-> res, exc |-> exc]

\* a mutant of center_trimmed: the value is divided over the whole alignment
center_untrimmed(feature, nibble, offset, value) ==
    <<<<Segment(feature.chrom, feature.start + nibble, feature.end - nibble,
                feature.strand),
        FDiv(value, Num(feature.end - feature.start))>>>>

\* center_map once nibble was read and the alignment found long enough
center_trimmed(feature, nibble, offset, value) ==
    LET sign  == IF feature.strand = "-" THEN -1 ELSE 1
        start == feature.start + nibble + sign * offset
        end   == feature.end - nibble + sign * offset
    IN  <<<<Segment(feature.chrom, start, end, feature.strand),
            FDiv(value, Num(end - start))>>>>

\* center_map(feature, **kwargs)
center_map(feature, kwargs) ==
    IF "nibble" \notin DOMAIN kwargs THEN RuleOutcome(<<>>, "KeyError")
    ELSE IF feature.end - feature.start <= 2 * kwargs["nibble"]
         THEN RuleOutcome(<<>>, "none")
         ELSE RuleOutcome(center_trimmed(feature, kwargs["nibble"],
                                         kwargs_get(kwargs, "offset", 0),
                                         kwargs_get(kwargs, "value", Num(1))),
                          "none")

\* kwargs["offset"].get(len(span), kwargs["offset"].get("default", None)): a
\* table is the record [by_length, default]; default is <<k>> when the table
\* has the entry 'default': k and None when it has none, and the offset
\* found is <<k>> or None likewise
table_offset(table, length) ==
    IF length \in DOMAIN table.by_length THEN <<table.by_length[length]>>
    ELSE table.default

\* a mutant of variable_mapped: an offset reaching the end of the read
\* discards the alignment
variable_mapped_checked(feature, offset, value) ==
    IF offset = None THEN <<>>
    ELSE IF offset[1] >= feature.end - feature.start THEN <<>>
    ELSE <<<<Segment(feature.chrom,
                     IF feature.strand \in {"+", "."} THEN feature.start + offset[1]
                     ELSE feature.end - 1 - offset[1],
                     (IF feature.strand \in {"+", "."} THEN feature.start + offset[1]
                      ELSE feature.end - 1 - offset[1]) + 1,
                     feature.strand), value>>>>

\* variable_five_prime_map once the offset was looked up
variable_mapped(feature, offset, value) ==
    LET start == IF feature.strand \in {"+", "."}
                 THEN feature.start + offset[1]
                 ELSE feature.end - 1 - offset[1]
    IN  IF offset = None THEN <<>>
        ELSE <<<<Segment(feature.chrom, start, start + 1, feature.strand), value>>>>

\* variable_five_prime_map(feature, **kwargs)
variable_five_prime_map(feature, kwargs) ==
    IF "offset" \notin DOMAIN kwargs THEN RuleOutcome(<<>>, "KeyError")
    ELSE RuleOutcome(variable_mapped(feature,
                                     table_offset(kwargs["offset"],
                                                  feature.end - feature.start),
                                     kwargs_get(kwargs, "value", Num(1))),
                     "none")

\* rule(feature, **kwargs) for each of the four mapping rules
rule_call(rule, feature, kwargs) ==
    IF rule = "center_map" THEN center_map(feature, kwargs)
    ELSE IF rule = "variable_five_prime_map" THEN variable_five_prime_map(feature, kwargs)
    ELSE IF rule = "five_prime_map"
    THEN RuleOutcome(five_prime_map(feature, kwargs_get(kwargs, "offset", 0),
                                    kwargs_get(kwargs, "value", Num(1))), "none")
    ELSE RuleOutcome(three_prime_map(feature, kwargs_get(kwargs, "offset", 0),
                                     kwargs_get(kwargs, "value", Num(1))), "none")

----------------------------------------------------------------------------
(* imports *)

\* self[seg] += val: __getitem__, the in-place addition, then __setitem__.
\* An unnormalized dense __getitem__ returns a view of the buffer, so the
\* addition already writes through to the positions the slice covers:
\* iadd_view is the array after the addition, g what __getitem__ handed back.
iadd_view(a, seg, val, g) ==
    LET b  == g.a.chroms[seg.chrom][seg.strand]
        lo == Min(seg.start, b.len)
    IN  IF a.kind = "dense" /\ ~a.normalize
        THEN [g.a EXCEPT !.chroms[seg.chrom][seg.strand] =
                 Store(b, lo, [i \in 1..Len(g.res) |-> FAdd(At(b, lo + i - 1), val)])]
        ELSE g.a

\* what the statement hands back: g from its __getitem__, s from its
\* __setitem__
iadd_outcome(g, s) ==
    IF g.exc # "none" THEN g
    ELSE Outcome(s.a, <<>>, s.exc, g.resized \/ s.resized)

\* the addition to the vector g that __getitem__ returned, stored back with
\* __setitem__
iadd_store(a, seg, val, g) ==
    iadd_outcome(g, setitem(iadd_view(a, seg, val, g),
                            seg.chrom, seg.strand, seg.start, seg.end,
                            [scalar |-> FALSE,
                             v |-> [i \in 1..Len(g.res) |-> FAdd(g.res[i], val)]],
                            TRUE))

iadd_item(a, seg, val) ==
    iadd_store(a, seg, val,
               getitem(a, seg.chrom, seg.strand, seg.start, seg.end, TRUE))

\* for seg, val in tuples: self[seg] += val, stopping at the first exception
RECURSIVE add_tuples(_, _)

\* the loop after its first pass handed back o and the later passes r
add_rest(o, r) == Outcome(r.a, <<>>, r.exc, o.resized \/ r.resized)

\* the loop after its first pass handed back o
add_next(o, tuples) ==
    IF o.exc # "none" THEN o
    ELSE add_rest(o, add_tuples(o.a, Tail(tuples)))

add_tuples(a, tuples) ==
    IF tuples = <<>> THEN Outcome(a, <<>>, "none", FALSE)
    ELSE add_next(iadd_item(a, tuples[1][1], tuples[1][2]), tuples)

\* the (segment, value) pairs of every alignment that passes the length filter
RECURSIVE mapped_tuples(_, _, _, _, _, _)
mapped_tuples(features, rule, min_length, max_length, offset, value) ==
    IF features = <<>> THEN <<>>
    ELSE (IF /\ features[1].end - features[1].start >= min_length
             /\ features[1].end - features[1].start <= max_length
          THEN mapfunc(rule, features[1], offset, value)
          ELSE <<>>)
         \o mapped_tuples(Tail(features), rule, min_length, max_length, offset, value)

\* self._sum = None once the loop of an import has ended; o is what the loop
\* handed back
import_done(o) ==
    IF o.exc # "none" THEN o
    ELSE Outcome(invalidate_sum(o.a), <<>>, "none", o.resized)

\* GenomeArray.add_from_bowtie
add_from_bowtie(a, features, rule, min_length, max_length, offset, value) ==
    import_done(add_tuples(a, mapped_tuples(features, rule, min_length, max_length,
                                            offset, value)))

\* the records of a wiggle file as (segment, value) pairs on one strand
wiggle_tuples(records, strand) ==
    [i \in 1..Len(records) |->
        <<Segment(records[i][1], records[i][2], records[i][3], strand), records[i][4]>>]

\* GenomeArray.add_from_wiggle
add_from_wiggle(a, records, strand) ==
    IF strand \notin StrandSet(a) THEN Outcome(a, <<>>, "AssertionError", FALSE)
    ELSE import_done(add_tuples(a, wiggle_tuples(records, strand)))

\* a value handed to a call: a scalar k, or the vector v
Scalar(k) == [scalar |-> TRUE, v |-> <<Num(k)>>]

Vector(v) == [scalar |-> FALSE, v |-> v]

----------------------------------------------------------------------------
(* elementwise combination of two dense arrays *)

\* a set of strand names as a sequence
StrandSeq(S) == SelectSeq(<<"+", "-", ".">>, LAMBDA s : s \in S)

\* a set of chromosome names as a sequence, in the order a dict yields them
RECURSIVE ChromSeq(_)
ChromSeq(S) ==
    IF S = {} THEN <<>>
    ELSE <<CHOOSE c \in S : TRUE>> \o ChromSeq(S \ {CHOOSE c \in S : TRUE})

\* operator.add and operator.mul on two floats
Apply(func, x, y) == IF func = "add" THEN FAdd(x, y) ELSE FMul(x, y)

\* func(sc, oc) on two ndarrays of one length
Elementwise(func, sc, oc) ==
    [len |-> sc.len,
     nz  |-> [p \in {q \in DOMAIN sc.nz \cup DOMAIN oc.nz :
                        Apply(func, At(sc, q), At(oc, q)) # Zero} |->
                 Apply(func, At(sc, p), At(oc, p))]]

\* func(sc, k) on an ndarray and a scalar
Broadcast(func, sc, k) ==
    [len |-> sc.len,
     nz  |-> [p \in {q \in 0..(sc.len - 1) : Apply(func, At(sc, q), k) # Zero} |->
                 Apply(func, At(sc, p), k)]]

\* func(x, y) on two vectors of one length
ElementwiseVec(func, x, y) ==
    [i \in 1..Len(x) |-> Apply(func, x[i], y[i])]

\* GenomeArray.like
like(a) == NewArray("dense", lengths(a), a.strands, MIN_CHR_SIZE)

\* GenomeArray._has_same_dimensions, TRUE when none of its assertions fails
_has_same_dimensions(self, oth) ==
    /\ keys(self) = keys(oth)
    /\ self.strands = oth.strands
    /\ lengths(self) = lengths(oth)

\* what apply_operation hands back: both operands afterwards, the array
\* returned (None when it raises) and the exception raised
OpOutcome(self, oth, new_array, exc) ==
    [self |-> self, other |-> oth, out |-> new_array, exc |-> exc]

\* mode 'same', one pass of the loop, after self[seg] handed back g1 and
\* other[seg] handed back g2: new_array[seg] = func(self[seg], other[seg])
same_assign(g1, g2, w, func, chrom, strand, end) ==
    OpOutcome(g1.a, g2.a,
              setitem(w.out, chrom, strand, 0, end,
                      Vector(ElementwiseVec(func, g1.res, g2.res)), TRUE).a,
              "none")

\* mode 'same', one pass of the loop: seg spans the strand's whole buffer
same_pass(w, func, chrom, strand, end) ==
    same_assign(getitem(w.self, chrom, strand, 0, end, TRUE),
                getitem(w.other, chrom, strand, 0, end, TRUE),
                w, func, chrom, strand, end)

\* mode 'same', the loop over the chromosomes and the strands of self
RECURSIVE same_loop(_, _, _)
same_loop(w, func, pairs) ==
    IF pairs = <<>> THEN w
    ELSE same_loop(same_pass(w, func, pairs[1][1], pairs[1][2],
                             w.self.chroms[pairs[1][1]][pairs[1][2]].len),
                   func, Tail(pairs))

\* the (chromosome, strand) pairs in the order the two loops visit them
RECURSIVE LoopPairs(_, _)
LoopPairs(chroms, strands) ==
    IF chroms = <<>> THEN <<>>
    ELSE [i \in 1..Len(strands) |-> <<chroms[1], strands[i]>>]
         \o LoopPairs(Tail(chroms), strands)

\* mode 'same'
apply_same(self, oth, func) ==
    IF ~_has_same_dimensions(self, oth)
    THEN OpOutcome(self, oth, None, "AssertionError")
    ELSE same_loop(OpOutcome(self, oth, like(self), "none"), func,
                   LoopPairs(ChromSeq(keys(self)), self.strands))

\* mode 'all', a chromosome both operands hold: the shorter buffer is resized
\* to the longer; a strand only one operand declares is combined with 0
all_buffer(self, oth, func, chrom, strand) ==
    IF strand \in StrandSet(self) /\ strand \in StrandSet(oth)
    THEN Elementwise(func,
                     resize(self.chroms[chrom][strand],
                            Max(self.chroms[chrom][strand].len,
                                oth.chroms[chrom][strand].len)),
                     resize(oth.chroms[chrom][strand],
                            Max(self.chroms[chrom][strand].len,
                                oth.chroms[chrom][strand].len)))
    ELSE IF strand \in StrandSet(self)
    THEN Broadcast(func, self.chroms[chrom][strand], Zero)
    ELSE Broadcast(func, oth.chroms[chrom][strand], Zero)

\* mode 'all', a chromosome only one operand holds: self[chrom][strand] and
\* other[chrom][strand] hand the name to __getitem__, which reads roi.chrom
\* of a str and raises
all_raises(self, oth) ==
    /\ StrandSet(self) \cup StrandSet(oth) # {}
    /\ \E chrom \in keys(self) \cup keys(oth) :
          ~(chrom \in keys(self) /\ chrom \in keys(oth))

\* mode 'all'
apply_all(self, oth, func) ==
    IF all_raises(self, oth)
    THEN OpOutcome(self, oth, None, "AttributeError")
    ELSE OpOutcome(self, oth,
                   [NewArray("dense", <<>>,
                             StrandSeq(StrandSet(self) \cup StrandSet(oth)),
                             MIN_CHR_SIZE)
                      EXCEPT !.chroms =
                          [chrom \in keys(self) \cup keys(oth) |->
                              [strand \in StrandSet(self) \cup StrandSet(oth) |->
                                  all_buffer(self, oth, func, chrom, strand)]]],
                   "none")

\* mode 'truncate': new_array is like(self); the buffers of the chromosomes
\* and strands both operands hold are replaced, the longer resized to the
\* shorter
truncate_buffer(self, oth, func, chrom, strand) ==
    IF chrom \in keys(oth) /\ strand \in StrandSet(oth)
    THEN Elementwise(func,
                     resize(self.chroms[chrom][strand],
                            Min(self.chroms[chrom][strand].len,
                                oth.chroms[chrom][strand].len)),
                     resize(oth.chroms[chrom][strand],
                            Min(self.chroms[chrom][strand].len,
                                oth.chroms[chrom][strand].len)))
    ELSE like(self).chroms[chrom][strand]

apply_truncate(self, oth, func) ==
    OpOutcome(self, oth,
              [like(self) EXCEPT !.chroms =
                  [chrom \in keys(self) |->
                      [strand \in StrandSet(self) |->
                          truncate_buffer(self, oth, func, chrom, strand)]]],
              "none")

\* a scalar operand: func(buffer, other) for every buffer of self
apply_scalar(self, k, func) ==
    OpOutcome(self, k,
              [like(self) EXCEPT !.chroms =
                  [chrom \in keys(self) |->
                      [strand \in StrandSet(self) |->
                          Broadcast(func, self.chroms[chrom][strand], k.v[1])]]],
              "none")

\* type(other) == self.__class__
IsArray(x) == "kind" \in DOMAIN x

\* the last statements of apply_operation: self.set_normalize(old_normalize)
\* and the return, neither reached when the mode's branch raised
apply_return(o, old_normalize) ==
    IF o.exc # "none" THEN o
    ELSE [o EXCEPT !.self = set_normalize(o.self, old_normalize)]

\* GenomeArray.apply_operation
apply_operation(self, oth, func, mode) ==
    apply_return(IF ~IsArray(oth) THEN apply_scalar(self, oth, func)
                 ELSE IF mode = "same" THEN apply_same(self, oth, func)
                 ELSE IF mode = "all" THEN apply_all(self, oth, func)
                 ELSE IF mode = "truncate" THEN apply_truncate(self, oth, func)
                 ELSE OpOutcome(self, oth, None, "ValueError"),
                 self.normalize)

\* GenomeArray.__add__
GenomeArray_add(self, oth, mode) == apply_operation(self, oth, "add", mode)

\* GenomeArray.__mul__
GenomeArray_mul(self, oth, mode) == apply_operation(self, oth, "mul", mode)

\* self.__add__(negated) once other*-1 handed back n
sub_add(self, oth, n) ==
    IF n.exc # "none" THEN OpOutcome(self, oth, None, n.exc)
    ELSE [GenomeArray_add(self, n.out, "all") EXCEPT !.other = n.self]

\* GenomeArray.__sub__: self.__add__(other*-1)
GenomeArray_sub(self, oth) ==
    IF IsArray(oth)
    THEN sub_add(self, oth, GenomeArray_mul(oth, Scalar(-1), "all"))
    ELSE [GenomeArray_add(self, Scalar(-(oth.v[1][1])), "all") EXCEPT !.other = oth]

----------------------------------------------------------------------------
(* elementwise combination of two sparse arrays *)

\* func(sc, oc) on two dok_matrix of shapes (1, sc.len) and (1, oc.len) is
\* defined for operator.add when the shapes agree; operator.mul on two
\* sparse matrices is the matrix product, defined when sc has one column
sparse_combinable(func, sc, oc) ==
    IF func = "add" THEN sc.len = oc.len ELSE sc.len = 1

sparse_func(func, sc, oc) ==
    IF func = "add" THEN Elementwise("add", sc, oc)
    ELSE Broadcast("mul", oc, At(sc, 0))

\* the buffer of the result for one chromosome both operands hold
sparse_buffer(self, oth, func, chrom, strand) ==
    IF strand \in StrandSet(self) /\ strand \in StrandSet(oth)
    THEN sparse_func(func, self.chroms[chrom][strand], oth.chroms[chrom][strand])
    ELSE IF strand \in StrandSet(self)
    THEN Broadcast(func, self.chroms[chrom][strand], Zero)
    ELSE Broadcast(func, oth.chroms[chrom][strand], Zero)

\* what one pass of the loop over the chromosomes raises: self[chrom] and
\* other[chrom] hand a str to __getitem__; func raises on shapes it cannot
\* combine
sparse_pass_exc(self, oth, func, chrom) ==
    IF ~(chrom \in keys(self) /\ chrom \in keys(oth)) THEN "AttributeError"
    ELSE IF \E strand \in StrandSet(self) \cap StrandSet(oth) :
                ~sparse_combinable(func, self.chroms[chrom][strand],
                                   oth.chroms[chrom][strand])
    THEN "ValueError"
    ELSE "none"

\* the exception of the first pass that raises
RECURSIVE sparse_loop_exc(_, _, _, _)
sparse_loop_exc(self, oth, func, chroms) ==
    IF chroms = <<>> THEN "none"
    ELSE IF sparse_pass_exc(self, oth, func, chroms[1]) # "none"
    THEN sparse_pass_exc(self, oth, func, chroms[1])
    ELSE sparse_loop_exc(self, oth, func, Tail(chroms))

\* the array operand: the loops and, when none of their passes raised,
\* self.set_normalize(old_normalize) and the return
sparse_combine(self, oth, func, old_normalize, exc) ==
    IF exc # "none" THEN OpOutcome(self, oth, None, exc)
    ELSE OpOutcome(set_normalize(self, old_normalize), oth,
                   [NewArray("sparse", <<>>,
                             StrandSeq(StrandSet(self) \cup StrandSet(oth)),
                             MIN_CHR_SIZE)
                      EXCEPT !.chroms =
                          [chrom \in keys(self) \cup keys(oth) |->
                              [strand \in StrandSet(self) \cup StrandSet(oth) |->
                                  sparse_buffer(self, oth, func, chrom, strand)]]],
                   "none")

\* SparseGenomeArray.apply_operation with an array operand: mode is not read
SparseGenomeArray_apply_operation(self, oth, func, mode) ==
    sparse_combine(set_normalize(self, FALSE), oth, func, self.normalize,
                   sparse_loop_exc(self, oth, func,
                                   ChromSeq(keys(self) \cup keys(oth))))

\* self.apply_operation(other, func, mode), dispatched on the class of self
array_apply_operation(self, oth, func, mode) ==
    IF self.kind = "sparse"
    THEN SparseGenomeArray_apply_operation(self, oth, func, mode)
    ELSE apply_operation(self, oth, func, mode)

----------------------------------------------------------------------------
(* equality of two dense arrays *)

\* x - y and x <= y on floats; a comparison with nan is False
FSub(x, y) == FAdd(x, FMul(Num(-1), y))

FLe(x, y) ==
    IF x = NaN \/ y = NaN THEN FALSE
    ELSE IF IsFinite(x) /\ IsFinite(y) THEN x[1] * y[2] <= y[1] * x[2]
    ELSE x = y \/ x = <<-1, 0>> \/ y = <<1, 0>>

\* GenomeArray.nonzero: the positions holding a nonzero value, per chromosome
\* and strand
nonzero(a) ==
    [key \in keys(a) |-> [strand \in StrandSet(a) |-> DOMAIN a.chroms[key][strand].nz]]

\* snz.get(chrom, {K : [] for K in strands}).get(strand, [])
nonzero_vec(nz, a, chrom, strand) ==
    IF chrom \in DOMAIN nz /\ strand \in StrandSet(a) THEN nz[chrom][strand] ELSE {}

\* self_nonzero_vec.min() and .max()
vec_min(S) == CHOOSE x \in S : \A y \in S : x <= y

vec_max(S) == CHOOSE x \in S : \A y \in S : x >= y

\* (self[test_seg] - other[test_seg] <= tol).all()
all_within(x, y, tol) ==
    \A i \in 1..Len(x) : FLe(FSub(x[i], y[i]), tol)

\* the value test: test_seg spans [min, max) of the nonzero positions
values_within(self, oth, chrom, strand, vec, tol) ==
    all_within(getitem(self, chrom, strand, vec_min(vec), vec_max(vec), TRUE).res,
               getitem(oth, chrom, strand, vec_min(vec), vec_max(vec), TRUE).res,
               tol)

\* one pass of the loops of __eq__: FALSE where the code returns False
eq_pass(self, oth, chrom, strand, svec, ovec, tol) ==
    /\ Cardinality(svec) = Cardinality(ovec)
    /\ svec = ovec
    /\ (svec # {} => values_within(self, oth, chrom, strand, svec, tol))

\* GenomeArray.__eq__. Its gets end below the buffers' ends on chromosomes
\* and strands both arrays hold, so they resize and create nothing.
GenomeArray_eq(self, oth, tol) ==
    \A chrom \in keys(self) \cup keys(oth) :
        \A strand \in StrandSet(self) \cup StrandSet(oth) :
            eq_pass(self, oth, chrom, strand,
                    nonzero_vec(nonzero(self), self, chrom, strand),
                    nonzero_vec(nonzero(oth), oth, chrom, strand), tol)

----------------------------------------------------------------------------
(* the alignment-backed array.  A BAM file is the record [lengths, reads]:
   the chromosome lengths of its header and the set of its alignments; an
   alignment is the record [name, chrom, start, end, is_reverse].  A filter
   function is named by what it accepts, a mapping function by the rule it
   applies to the 5' or the 3' end of every alignment. *)

Alignment(name, chrom, start, end, is_reverse) ==
    [name |-> name, chrom |-> chrom, start |-> start, end |-> end,
     is_reverse |-> is_reverse]

\* sum([X.mapped for X in self.bamfiles])
RECURSIVE mapped_total(_)
mapped_total(bamfiles) ==
    IF bamfiles = <<>> THEN 0
    ELSE Cardinality(bamfiles[1].reads) + mapped_total(Tail(bamfiles))

\* BAMGenomeArray.__init__, with its _update()
BAMGenomeArray(bamfiles, mapping) ==
    [kind        |-> "bam",
     bamfiles    |-> bamfiles,
     map_fn      |-> mapping,
     strands     |-> <<"+", "-", ".">>,
     normalize   |-> FALSE,
     chr_lengths |-> [k \in UNION {DOMAIN bamfiles[i].lengths : i \in DOMAIN bamfiles} |->
                         vec_max({bamfiles[i].lengths[k] :
                                    i \in {j \in DOMAIN bamfiles :
                                              k \in DOMAIN bamfiles[j].lengths}})],
     filters     |-> <<>>,
     sum         |-> Num(mapped_total(bamfiles))]

\* a mutant of add_filter: a name already registered is registered again
add_filter_appending(a, name, func) ==
    [a EXCEPT !.filters = Append(a.filters, <<name, func>>)]

\* BAMGenomeArray.add_filter: self._filters[name] = func on an OrderedDict
add_filter(a, name, func) ==
    [a EXCEPT !.filters =
        IF \E i \in DOMAIN a.filters : a.filters[i][1] = name
        THEN [i \in DOMAIN a.filters |->
                 IF a.filters[i][1] = name THEN <<name, func>> ELSE a.filters[i]]
        ELSE Append(a.filters, <<name, func>>)]

\* BAMGenomeArray.remove_filter: self._filters.pop(name)
remove_filter(a, name) ==
    IF \E i \in DOMAIN a.filters : a.filters[i][1] = name
    THEN Outcome([a EXCEPT !.filters = SelectSeq(a.filters, LAMBDA f : f[1] # name)],
                 <<>>, "none", FALSE)
    ELSE Outcome(a, <<>>, "KeyError", FALSE)

\* BAMGenomeArray.set_mapping, with its _update()
set_mapping(a, mapping_function) ==
    [a EXCEPT !.map_fn = mapping_function, !.sum = Num(mapped_total(a.bamfiles))]

\* X.fetch(reference, start, end) of the alignment reader: the alignments
\* of the file that overlap the interval
fetch(bamfile, reference, start, end) ==
    {r \in bamfile.reads : r.chrom = reference /\ r.start < end /\ r.end > start}

\* the chain of the fetches from every file
fetched(a, chrom, start, end) ==
    UNION {fetch(a.bamfiles[i], chrom, start, end) : i \in DOMAIN a.bamfiles}

\* filter by strand
strand_filtered(reads, strand) ==
    IF strand = "+" THEN {r \in reads : ~r.is_reverse}
    ELSE IF strand = "-" THEN {r \in reads : r.is_reverse}
    ELSE reads

\* a filter function called on an alignment
filter_accepts(func, read) ==
    IF func = "at_least_2" THEN read.end - read.start >= 2
    ELSE read.end - read.start <= 2

\* for my_filter in self._filters.values(): reads = ifilter(my_filter, reads)
RECURSIVE apply_filters(_, _)
apply_filters(reads, filters) ==
    IF filters = <<>> THEN reads
    ELSE apply_filters({r \in reads : filter_accepts(filters[1][2], r)}, Tail(filters))

\* the position a mapping function gives an alignment
mapped_position(map_fn, read) ==
    mapfunc(map_fn,
            Segment(read.chrom, read.start, read.end,
                    IF read.is_reverse THEN "-" ELSE "+"),
            0, Num(1))[1][1].start

\* self.map_fn(list(reads), roi): the alignments mapped inside roi, and the
\* count of them at every position of roi
map_reads(map_fn, reads, start, end) ==
    {r \in reads : mapped_position(map_fn, r) \in start..(end - 1)}

map_counts(map_fn, reads, start, end) ==
    [i \in 1..(end - start) |->
        Num(Cardinality({r \in reads : mapped_position(map_fn, r) = start + i - 1}))]

\* the normalization and the reversal at the end of get_reads_and_counts
count_view(a, count_array, strand, roi_order) ==
    LET vals == IF a.normalize
                THEN [i \in 1..Len(count_array) |->
                         FMul(FDiv(count_array[i], a.sum), Num(PerMillion))]
                ELSE count_array
    IN  IF roi_order /\ strand = "-" THEN Reverse(vals) ELSE vals

\* get_reads_and_counts once the reads were fetched and filtered: handed is
\* what the mapping function receives
query_result(a, handed, strand, start, end, roi_order) ==
    [reads  |-> map_reads(a.map_fn, handed, start, end),
     counts |-> count_view(a, map_counts(a.map_fn, handed, start, end), strand, roi_order),
     handed |-> handed,
     mapped |-> TRUE]

\* BAMGenomeArray.get_reads_and_counts
get_reads_and_counts(a, chrom, strand, start, end, roi_order) ==
    IF chrom \notin DOMAIN a.chr_lengths
    THEN [reads |-> {}, counts |-> [i \in 1..(end - start) |-> Zero],
          handed |-> {}, mapped |-> FALSE]
    ELSE query_result(a,
                      apply_filters(strand_filtered(fetched(a, chrom, start, end), strand),
                                    a.filters),
                      strand, start, end, roi_order)

\* BAMGenomeArray.__getitem__ for a GenomicSegment
BAMGenomeArray_getitem(a, chrom, strand, start, end, roi_order) ==
    get_reads_and_counts(a, chrom, strand, start, end, roi_order).counts

\* the loops of to_genome_array: ga[seg] = self[seg] with
\* seg = GenomicSegment(chrom, 0, self.lengths()[chrom] - 1, strand)
RECURSIVE copy_counts(_, _, _)
copy_counts(ga, a, pairs) ==
    IF pairs = <<>> THEN ga
    ELSE copy_counts(setitem(ga, pairs[1][1], pairs[1][2], 0,
                             a.chr_lengths[pairs[1][1]] - 1,
                             Vector(BAMGenomeArray_getitem(a, pairs[1][1], pairs[1][2], 0,
                                                           a.chr_lengths[pairs[1][1]] - 1,
                                                           TRUE)),
                             TRUE).a,
                     a, Tail(pairs))

\* BAMGenomeArray.to_genome_array
to_genome_array(a, array_type) ==
    copy_counts(NewArray(array_type, a.chr_lengths, a.strands, MIN_CHR_SIZE), a,
                LoopPairs(ChromSeq(DOMAIN a.chr_lengths), a.strands))

----------------------------------------------------------------------------
(* bedGraph export.  A data line "chrom<TAB>start<TAB>end<TAB>value" is the
   tuple <<chrom, start, end, value>>; an export is the sequence of its data
   lines, the track line left out. *)

\* sorted(...) for chromosome names
sorted_chroms(S) == SelectSeq(<<"chrA", "chrB">>, LAMBDA c : c \in S)

\* the loop over range(nz.min(), nz.max()+1) of GenomeArray.to_bedgraph,
\* with the line written after it
RECURSIVE dense_runs(_, _, _, _, _, _)
dense_runs(chrom, buf, x, hi, last_x, last_val) ==
    IF x > hi THEN << <<chrom, last_x, hi + 1, last_val>> >>
    ELSE IF At(buf, x) # last_val
         THEN << <<chrom, last_x, x, last_val>> >>
              \o dense_runs(chrom, buf, x + 1, hi, x, At(buf, x))
         ELSE dense_runs(chrom, buf, x + 1, hi, last_x, last_val)

\* one chromosome of GenomeArray.to_bedgraph
dense_chrom_lines(a, chrom, strand) ==
    IF SumCells(a, {c \in Cells(a) : c[1] = chrom /\ c[2] = strand})[1] > 0
    THEN dense_runs(chrom, a.chroms[chrom][strand],
                    vec_min(nonzero(a)[chrom][strand]),
                    vec_max(nonzero(a)[chrom][strand]), 0, Zero)
    ELSE <<>>

RECURSIVE dense_lines(_, _, _)
dense_lines(a, chroms, strand) ==
    IF chroms = <<>> THEN <<>>
    ELSE dense_chrom_lines(a, chroms[1], strand) \o dense_lines(a, Tail(chroms), strand)

\* GenomeArray.to_bedgraph, which SparseGenomeArray inherits
GenomeArray_to_bedgraph(a, strand) ==
    IF strand \notin StrandSet(a) THEN Outcome(a, <<>>, "AssertionError", FALSE)
    ELSE Outcome(a, dense_lines(a, sorted_chroms(keys(a)), strand), "none", FALSE)

\* my_counts.sum()
RECURSIVE counts_sum(_)
counts_sum(v) == IF v = <<>> THEN Zero ELSE FAdd(v[1], counts_sum(Tail(v)))

\* the loop over enumerate(my_counts[1:]) of BAMGenomeArray.to_bedgraph, with
\* the line written after it; i is the 1-based index of val in my_counts
RECURSIVE window_runs(_, _, _, _, _, _, _)
window_runs(chrom, my_counts, i, genomic_start_x, last_val, my_start, my_end) ==
    IF i > Len(my_counts)
    THEN IF last_val[1] > 0 THEN << <<chrom, genomic_start_x, my_end, last_val>> >>
         ELSE <<>>
    ELSE IF my_counts[i] # last_val
         THEN (IF last_val[1] > 0
               THEN << <<chrom, genomic_start_x, i - 1 + my_start, last_val>> >>
               ELSE <<>>)
              \o window_runs(chrom, my_counts, i + 1, i - 1 + my_start, my_counts[i],
                             my_start, my_end)
         ELSE window_runs(chrom, my_counts, i + 1, genomic_start_x, last_val,
                          my_start, my_end)

\* one window
window_lines(chrom, my_counts, my_start, my_end) ==
    IF counts_sum(my_counts)[1] > 0
    THEN window_runs(chrom, my_counts, 2, my_start, my_counts[1], my_start, my_end)
    ELSE <<>>

\* for my_start in xrange(0, self._chr_lengths[chrom], window_size)
RECURSIVE bam_chrom_lines(_, _, _, _, _)
bam_chrom_lines(a, chrom, strand, window_size, my_start) ==
    IF my_start >= a.chr_lengths[chrom] THEN <<>>
    ELSE window_lines(chrom,
                      BAMGenomeArray_getitem(a, chrom, strand, my_start,
                                             Min(my_start + window_size,
                                                 a.chr_lengths[chrom]),
                                             FALSE),
                      my_start, Min(my_start + window_size, a.chr_lengths[chrom]))
         \o bam_chrom_lines(a, chrom, strand, window_size, my_start + window_size)

RECURSIVE bam_lines(_, _, _, _)
bam_lines(a, chroms, strand, window_size) ==
    IF chroms = <<>> THEN <<>>
    ELSE bam_chrom_lines(a, chroms[1], strand, window_size, 0)
         \o bam_lines(a, Tail(chroms), strand, window_size)

\* BAMGenomeArray.to_bedgraph
BAMGenomeArray_to_bedgraph(a, strand, window_size) ==
    IF strand \notin StrandSet(a) \/ window_size <= 0
    THEN Outcome(a, <<>>, "AssertionError", FALSE)
    ELSE Outcome(a, bam_lines(a, sorted_chroms(DOMAIN a.chr_lengths), strand, window_size),
                 "none", FALSE)

\* to_bedgraph on an array of any of the three types
to_bedgraph(a, strand, window_size) ==
    IF a.kind = "bam" THEN BAMGenomeArray_to_bedgraph(a, strand, window_size)
    ELSE GenomeArray_to_bedgraph(a, strand)

----------------------------------------------------------------------------
(* bounds and inputs *)

\* the min_chr_size handed to the constructor
MinChrSize == 3

\* a call is drawn only while the stored total is at most MaxMass
MaxMass == 3

\* and every stored value is an integer of at most this magnitude
ValueCap == 1000

Kinds == {"dense", "sparse"}

Chroms == {"chrA", "chrB"}

Strands == {"+", "-", "."}

\* a chromosome-length map for the constructor
GivenLengths == ("chrA" :> MinChrSize)

\* an interval inside the first buffer, one ending at its end and one
\* straddling its end
Intervals ==
    {<<0, 2>>, <<MinChrSize - 2, MinChrSize>>, <<MinChrSize - 1, MinChrSize + 1>>}

\* an empty interval, one past the end of the first buffer and one past the
\* end of a buffer that was resized once
EdgeIntervals ==
    {<<1, 1>>, <<MinChrSize, MinChrSize + 1>>,
     <<MinChrSize + GrowMargin, MinChrSize + GrowMargin + 1>>}

\* the values written over an interval of length n: a scalar, or the vector
\* 1, 2, ..., n
ValuesFor(n) == {Scalar(2), Vector([i \in 1..n |-> Num(i)])}

\* the arguments of a get
GetInputs ==
    {<<c, s, iv, ro>> \in Chroms \X Strands \X (Intervals \cup EdgeIntervals) \X BOOLEAN :
        /\ (~ro => s = "-")
        /\ (iv \in EdgeIntervals => c = "chrA" /\ s = "+")
        /\ (c = "chrB" => iv = <<0, 2>>)}

\* the arguments of a set
SetInputs ==
    {<<c, s, iv, val>> \in Chroms \X Strands \X (Intervals \cup EdgeIntervals) \X
                           UNION {ValuesFor(n) : n \in 0..2} :
        /\ val \in ValuesFor(iv[2] - iv[1])
        /\ (iv \in EdgeIntervals => c = "chrA" /\ s = "+")
        /\ (c = "chrB" => iv = <<0, 2>>)
        /\ iv[1] < MinChrSize + GrowMargin}

\* the arguments of the calls made while the sum and the normalization are
\* exercised
SumGetInputs == {x \in GetInputs : x[1] = "chrA" /\ x[3] = <<0, 2>> /\ x[2] # "."}

SumSetInputs == {x \in SetInputs : x[1] = "chrA" /\ x[3] = <<0, 2>> /\ x[2] # "."}

\* the value given to set_sum
SumValues == {Num(2000000)}

\* alignments of a bowtie file
Reads ==
    {Segment("chrA", 0, 2, "+"), Segment("chrA", 1, 2, "+"),
     Segment("chrA", MinChrSize - 1, MinChrSize + 1, "-")}

MapRules == {"five_prime_map", "three_prime_map"}

\* records of a wiggle file
WiggleRecords == {<<"chrB", 0, 2, Num(1)>>}

\* the chromosome-length maps the two operands of an operation are built from
OpLengths ==
    {("chrA" :> MinChrSize), ("chrA" :> MinChrSize + 1),
     ("chrA" :> MinChrSize) @@ ("chrB" :> MinChrSize), ("chrB" :> MinChrSize)}

\* and their strands: the default pair, the same pair given in the other
\* order, and the plus strand alone
OpStrands == {<<"+", "-">>, <<"-", "+">>, <<"+">>}

\* ga[GenomicSegment(chrom, 0, 2, strand)] = [1, 2] for every pair
RECURSIVE Filled(_, _)
Filled(a, pairs) ==
    IF pairs = <<>> THEN a
    ELSE Filled(setitem(a, pairs[1][1], pairs[1][2], 0, 2,
                        Vector(<<Num(1), Num(2)>>), TRUE).a,
                Tail(pairs))

\* the operands: built from a chromosome-length map, then written once on
\* every chromosome and strand
OpArrays ==
    {Filled(NewArray("dense", cl, st, MinChrSize), LoopPairs(ChromSeq(DOMAIN cl), st)) :
        cl \in OpLengths, st \in OpStrands}

Modes == {"same", "all", "truncate", "any"}

Funcs == {"add", "mul"}

\* the scalar operands
OpScalars == {Scalar(-1), Scalar(2)}

\* an operation is drawn only on operands whose buffers have the lengths
\* they were built with
OpBounds(a) == \A c \in keys(a) : lengths(a)[c] <= MinChrSize + 1

InBounds(a) ==
    /\ \A x \in Cells(a) :
          LET v == a.chroms[x[1]][x[2]].nz[x[3]]
          IN  v[2] = 1 /\ Abs(v[1]) <= ValueCap
    /\ SumCells(a, Cells(a))[1] <= MaxMass

----------------------------------------------------------------------------
(* the state machine *)

NoVal == Vector(<<>>)

\* the record of a call: pre is the array before it, o its Outcome
Call(op, chrom, strand, start, end, roi_order, val, pre, o) ==
    [op        |-> op,
     chrom     |-> chrom,
     strand    |-> strand,
     start     |-> start,
     end       |-> end,
     roi_order |-> roi_order,
     val       |-> val,
     res       |-> o.res,
     exc       |-> o.exc,
     resized   |-> o.resized,
     prelen    |-> IF chrom \in keys(pre) THEN lengths(pre)[chrom] ELSE -1,
     fresh     |-> pre = NewArray(pre.kind, <<>>, pre.strands, pre.min_chr_size),
     mutated   |-> FALSE,
     mode      |-> "",
     func      |-> ""]

NoCall ==
    [op |-> "init", chrom |-> "", strand |-> "", start |-> 0, end |-> 0,
     roi_order |-> TRUE, val |-> NoVal, res |-> <<>>, exc |-> "none",
     resized |-> FALSE, prelen |-> -1, fresh |-> FALSE, mutated |-> FALSE,
     mode |-> "", func |-> ""]

Init ==
    /\ arr \in {NewArray(k, cl, _DEFAULT_STRANDS, MinChrSize) :
                    k \in Kinds, cl \in {<<>>, GivenLengths}}
    /\ ref = arr
    /\ other = arr
    /\ out = arr
    /\ last = NoCall

\* arr[roi] / arr.__getitem__(roi, roi_order)
GetStep(chrom, strand, iv, roi_order) ==
    LET o == getitem(arr, chrom, strand, iv[1], iv[2], roi_order)
    IN  /\ InBounds(arr)
        /\ arr' = o.a
        /\ last' = [Call("get", chrom, strand, iv[1], iv[2], roi_order, NoVal, arr, o)
                      EXCEPT !.mutated = last.mutated]

Get(inputs) ==
    /\ \E x \in inputs : GetStep(x[1], x[2], x[3], x[4])
    /\ UNCHANGED <<ref, other, out>>

\* arr[seg] = val
SetStep(chrom, strand, iv, val) ==
    LET o == setitem(arr, chrom, strand, iv[1], iv[2], val, TRUE)
    IN  /\ InBounds(arr)
        /\ arr' = o.a
        /\ last' = [Call("set", chrom, strand, iv[1], iv[2], TRUE, val, arr, o)
                      EXCEPT !.mutated = TRUE]

Set(inputs) ==
    /\ \E x \in inputs : SetStep(x[1], x[2], x[3], x[4])
    /\ UNCHANGED <<ref, other, out>>

\* arr.sum()
Sum ==
    LET sm == sum(arr)
    IN  /\ InBounds(arr)
        /\ arr' = sm.a
        /\ last' = [Call("sum", "", "", 0, 0, TRUE, NoVal, arr,
                         Outcome(sm.a, <<sm.value>>, "none", FALSE))
                      EXCEPT !.mutated = last.mutated]
        /\ UNCHANGED <<ref, other, out>>

\* arr.set_sum(val)
SetSum ==
    /\ InBounds(arr)
    /\ \E val \in SumValues :
          /\ arr' = set_sum(arr, val)
          /\ last' = Call("set_sum", "", "", 0, 0, TRUE, Scalar(val[1]), arr,
                          Outcome(arr', <<>>, "none", FALSE))
    /\ UNCHANGED <<ref, other, out>>

\* arr.set_normalize(value)
SetNormalizeStep(value) ==
    /\ InBounds(arr)
    /\ arr' = set_normalize(arr, value)
    /\ last' = [Call("set_normalize", "", "", 0, 0, value, NoVal, arr,
                     Outcome(arr', <<>>, "none", FALSE))
                  EXCEPT !.mutated = last.mutated]

SetNormalize ==
    /\ \E value \in BOOLEAN : SetNormalizeStep(value)
    /\ UNCHANGED <<ref, other, out>>

\* arr.add_from_bowtie(fh, mapfunc, min_length=2, max_length=2, offset=offset):
\* fh holds one alignment, value keeps its default 1.0
BowtieStep(read, rule, offset) ==
    LET o == add_from_bowtie(arr, <<read>>, rule, 2, 2, offset, Num(1))
    IN  /\ InBounds(arr)
        /\ arr' = o.a
        /\ last' = [Call("add_from_bowtie", read.chrom, read.strand, read.start,
                         read.end, TRUE, Scalar(offset), arr, o)
                      EXCEPT !.mutated = TRUE]

AddFromBowtie ==
    /\ \E read \in Reads, rule \in MapRules, offset \in {0} :
          BowtieStep(read, rule, offset)
    /\ UNCHANGED <<ref, other, out>>

\* arr.add_from_wiggle(fh, strand): fh holds one record. A call that fails
\* its entry assertion is not a mutation.
WiggleStep(rec, strand) ==
    LET o == add_from_wiggle(arr, <<rec>>, strand)
    IN  /\ InBounds(arr)
        /\ arr' = o.a
        /\ last' = [Call("add_from_wiggle", rec[1], strand, rec[2], rec[3], TRUE,
                         Scalar(rec[4][1]), arr, o)
                      EXCEPT !.mutated = (last.mutated \/ strand \in StrandSet(arr))]

AddFromWiggle ==
    /\ \E rec \in WiggleRecords, strand \in Strands : WiggleStep(rec, strand)
    /\ UNCHANGED <<ref, other, out>>

\* get and set on a dense or a sparse array
Next ==
    \/ Get(GetInputs)
    \/ Set(SetInputs)

Spec == Init /\ [][Next]_vars

\* the sum, the normalization and the imports
NextSum ==
    \/ Get(SumGetInputs)
    \/ Set(SumSetInputs)
    \/ Sum
    \/ SetSum
    \/ SetNormalize
    \/ AddFromBowtie
    \/ AddFromWiggle

SpecSum == Init /\ [][NextSum]_vars

\* the same calls on arr and on ref, but for set_normalize, which only arr
\* receives
RefSet ==
    /\ InBounds(ref)
    /\ \E x \in SumSetInputs :
          /\ SetStep(x[1], x[2], x[3], x[4])
          /\ ref' = setitem(ref, x[1], x[2], x[3][1], x[3][2], x[4], TRUE).a
    /\ UNCHANGED <<other, out>>

RefAddFromBowtie ==
    /\ InBounds(ref)
    /\ \E read \in Reads, rule \in MapRules :
          /\ BowtieStep(read, rule, 0)
          /\ ref' = add_from_bowtie(ref, <<read>>, rule, 2, 2, 0, Num(1)).a
    /\ UNCHANGED <<other, out>>

RefAddFromWiggle ==
    /\ InBounds(ref)
    /\ \E rec \in WiggleRecords, strand \in Strands :
          /\ WiggleStep(rec, strand)
          /\ ref' = add_from_wiggle(ref, <<rec>>, strand).a
    /\ UNCHANGED <<other, out>>

NextRef ==
    \/ RefSet
    \/ RefAddFromBowtie
    \/ RefAddFromWiggle
    \/ SetNormalize

SpecRef == Init /\ [][NextRef]_vars

\* two dense arrays, built and written, before any operation on them
InitOp ==
    /\ arr \in OpArrays
    /\ other \in OpArrays
    /\ ref = arr
    /\ out = None
    /\ last = NoCall

\* a run ends with the first operation that returns an array
Operable == out = None /\ OpBounds(arr) /\ OpBounds(other)

\* the record of an operation: o is its OpOutcome
OpCall(op, mode, func, val, o) ==
    [Call(op, "", "", 0, 0, TRUE, val, arr, Outcome(o.self, <<>>, o.exc, FALSE))
       EXCEPT !.mode = mode, !.func = func]

\* out = an operation on arr and other; out is None when it raises
OpStep(op, mode, func, o) ==
    /\ Operable
    /\ arr' = o.self
    /\ other' = o.other
    /\ out' = o.out
    /\ last' = OpCall(op, mode, func, NoVal, o)
    /\ UNCHANGED ref

\* out = arr.apply_operation(other, func, mode)
ApplyOperation ==
    \E mode \in Modes, func \in Funcs :
        OpStep("apply_operation", mode, func, apply_operation(arr, other, func, mode))

\* out = arr.apply_operation(k, func), mode left at its default
ScalarStep(k, func, o) ==
    /\ Operable
    /\ arr' = o.self
    /\ out' = o.out
    /\ last' = OpCall("apply_operation", "same", func, k, o)
    /\ UNCHANGED <<ref, other>>

ApplyScalar ==
    \E k \in OpScalars, func \in Funcs :
        ScalarStep(k, func, apply_operation(arr, k, func, "same"))

\* out = arr + other
Add == OpStep("add", "all", "add", GenomeArray_add(arr, other, "all"))

\* out = arr * other
Mul == OpStep("mul", "all", "mul", GenomeArray_mul(arr, other, "all"))

\* out = arr - other
Sub == OpStep("sub", "all", "add", GenomeArray_sub(arr, other))

\* arr.set_normalize(value) between two operations
OpSetNormalize ==
    /\ Operable
    /\ \E value \in BOOLEAN :
          /\ arr' = set_normalize(arr, value)
          /\ last' = [Call("set_normalize", "", "", 0, 0, value, NoVal, arr,
                           Outcome(arr', <<>>, "none", FALSE))
                        EXCEPT !.mutated = last.mutated]
    /\ UNCHANGED <<ref, other, out>>

NextOp ==
    \/ ApplyOperation
    \/ ApplyScalar
    \/ Add
    \/ Mul
    \/ Sub
    \/ OpSetNormalize

SpecOp == InitOp /\ [][NextOp]_vars

----------------------------------------------------------------------------
(* apply_operation on two arrays of one class, dense or sparse *)

ModeStrands == {<<"+", "-">>, <<"+">>}

\* the operands, built and written as those of the dense operations are
ModeArrays(kind) ==
    {Filled(NewArray(kind, cl, st, MinChrSize), LoopPairs(ChromSeq(DOMAIN cl), st)) :
        cl \in OpLengths, st \in ModeStrands}

InitModes ==
    /\ \E kind \in Kinds : arr \in ModeArrays(kind) /\ other \in ModeArrays(kind)
    /\ ref = arr
    /\ out = None
    /\ last = NoCall

\* out = arr.apply_operation(other, func, mode)
ModeApplyOperation ==
    \E mode \in Modes, func \in Funcs :
        OpStep("apply_operation", mode, func,
               array_apply_operation(arr, other, func, mode))

NextModes ==
    \/ ModeApplyOperation
    \/ OpSetNormalize

SpecModes == InitModes /\ [][NextModes]_vars

----------------------------------------------------------------------------
(* the comparison of two dense arrays *)

\* the arrays compared are built empty, from a map giving a longer
\* chromosome, or from a map naming a second chromosome
EqLengths ==
    {<<>>, ("chrA" :> MinChrSize + 1), ("chrA" :> MinChrSize) @@ ("chrB" :> MinChrSize)}

\* and written one position at a time
EqSetInputs ==
    {<<"chrA", "+", <<0, 1>>>>, <<"chrA", "+", <<2, 3>>>>, <<"chrA", "-", <<1, 2>>>>}

EqValues == {Scalar(1), Scalar(2)}

\* the tolerance handed to __eq__. Its default 1e-10 is beyond the integers
\* of the checker; on the whole numbers written here every tolerance
\* between 0 and 1 decides as the default does.
Tolerance == Float(1, 1000)

InitEq ==
    /\ arr \in {NewArray("dense", cl, _DEFAULT_STRANDS, MinChrSize) : cl \in EqLengths}
    /\ other \in {NewArray("dense", cl, _DEFAULT_STRANDS, MinChrSize) : cl \in EqLengths}
    /\ ref = arr
    /\ out = None
    /\ last = NoCall

\* the record of a write made before a comparison
EqWritten == [NoCall EXCEPT !.op = "set", !.mutated = TRUE]

\* arr[seg] = val
EqSetSelf ==
    /\ InBounds(arr)
    /\ \E x \in EqSetInputs, val \in EqValues :
          arr' = setitem(arr, x[1], x[2], x[3][1], x[3][2], val, TRUE).a
    /\ last' = EqWritten
    /\ UNCHANGED <<ref, other, out>>

\* other[seg] = val
EqSetOther ==
    /\ InBounds(other)
    /\ \E x \in EqSetInputs, val \in EqValues :
          other' = setitem(other, x[1], x[2], x[3][1], x[3][2], val, TRUE).a
    /\ last' = EqWritten
    /\ UNCHANGED <<arr, ref, out>>

\* arr.__eq__(other, tol)
Eq ==
    /\ last' = [NoCall EXCEPT !.op = "eq",
                               !.res = <<GenomeArray_eq(arr, other, Tolerance)>>]
    /\ UNCHANGED <<arr, ref, other, out>>

NextEq ==
    \/ EqSetSelf
    \/ EqSetOther
    \/ Eq

SpecEq == InitEq /\ [][NextEq]_vars

----------------------------------------------------------------------------
(* the mapping rules called on one alignment *)

\* the spans of the alignments: one of twenty positions and two short ones
MapSpans == {<<50, 70>>, <<0, 1>>, <<0, 2>>}

\* offsets below, at and beyond the lengths of the alignments
MapOffsets == {0, 1, 2, 3, 21}

\* the value to apportion: its default 1.0 and another
MapValues == {Num(1), Num(2)}

InitMap ==
    /\ arr = None
    /\ ref = None
    /\ other = None
    /\ out = None
    /\ last = NoCall

\* rule(feature, offset=offset, value=value)
MapCall ==
    /\ \E rule \in MapRules, span \in MapSpans, strand \in Strands,
          offset \in MapOffsets, value \in MapValues :
          last' = [offset |-> offset, value |-> value] @@
                  [NoCall EXCEPT !.op = rule, !.chrom = "chrA", !.strand = strand,
                                 !.start = span[1], !.end = span[2],
                                 !.res = mapfunc(rule, Segment("chrA", span[1], span[2], strand),
                                                 offset, value)]
    /\ UNCHANGED <<arr, ref, other, out>>

NextMap == MapCall

SpecMap == InitMap /\ [][NextMap]_vars

----------------------------------------------------------------------------
(* the four mapping rules called with keyword arguments *)

AllRules == {"center_map", "five_prime_map", "three_prime_map", "variable_five_prime_map"}

\* alignments of length 10, 1 and 2
RuleSpans == {<<100, 110>>, <<0, 1>>, <<0, 2>>}

RuleNibbles == {0, 1, 2, 5}

RuleOffsets == {0, 1, 2}

\* length-to-offset tables: with and without the lengths 2 and 10, with and
\* without a default
OffsetTables ==
    {[by_length |-> bl, default |-> d] :
        bl \in {(3 :> 1), (2 :> 1), (2 :> 0) @@ (10 :> 3)}, d \in {None, <<0>>, <<12>>}}

\* a keyword argument, passed (<<x>>) or omitted (<<>>)
Passed(key, x) == IF x = <<>> THEN <<>> ELSE (key :> x[1])

Optional(S) == {<<>>} \cup {<<x>> : x \in S}

\* the keyword arguments a rule is called with
KwargsFor(rule) ==
    IF rule = "center_map"
    THEN {Passed("nibble", n) @@ Passed("offset", o) @@ Passed("value", v) :
            n \in Optional(RuleNibbles), o \in Optional(RuleOffsets),
            v \in Optional(MapValues)}
    ELSE IF rule = "variable_five_prime_map"
    THEN {("offset" :> tb) @@ Passed("value", v) :
            tb \in OffsetTables, v \in Optional(MapValues)}
    ELSE {Passed("offset", o) @@ Passed("value", v) :
            o \in Optional(RuleOffsets), v \in Optional(MapValues)}

\* rule(feature, **kwargs)
RuleCall ==
    /\ \E rule \in AllRules, span \in RuleSpans, strand \in Strands :
          \E kwargs \in KwargsFor(rule) :
              last' = [kwargs |-> kwargs] @@
                      [NoCall EXCEPT
                          !.op = rule, !.chrom = "chrA", !.strand = strand,
                          !.start = span[1], !.end = span[2],
                          !.res = rule_call(rule, Segment("chrA", span[1], span[2], strand),
                                            kwargs).res,
                          !.exc = rule_call(rule, Segment("chrA", span[1], span[2], strand),
                                            kwargs).exc]
    /\ UNCHANGED <<arr, ref, other, out>>

NextRules == RuleCall

SpecRules == InitMap /\ [][NextRules]_vars

----------------------------------------------------------------------------
(* imports from an alignment file with length bounds, an offset and a value *)

ImportLength == MinChrSize + 2

\* alignments of length 2, 1 and 3
ImportReads ==
    {Segment("chrA", 1, 3, "+"), Segment("chrA", 2, 3, "+"),
     Segment("chrA", 1, MinChrSize + 1, "-")}

\* files of one and of two alignments
ImportFiles ==
    {<<r>> : r \in ImportReads}
    \cup {<<r, q>> : r \in {Segment("chrA", 1, 3, "+")}, q \in ImportReads}

\* min_length and max_length
LengthBounds == {<<1, 2>>, <<2, MinChrSize>>}

ImportOffsets == {0, 2}

InitImport ==
    /\ arr \in {NewArray(k, ("chrA" :> ImportLength), _DEFAULT_STRANDS, MinChrSize) :
                    k \in Kinds}
    /\ ref = arr
    /\ other = None
    /\ out = None
    /\ last = NoCall

\* arr[GenomicSegment("chrA", 1, 2, "+")] = 1
ImportSet ==
    /\ InBounds(arr)
    /\ arr' = setitem(arr, "chrA", "+", 1, 2, Scalar(1), TRUE).a
    /\ last' = [NoCall EXCEPT !.op = "set"]
    /\ UNCHANGED <<ref, other, out>>

\* arr.set_normalize(value)
ImportSetNormalize ==
    /\ InBounds(arr)
    /\ \E value \in BOOLEAN : arr' = set_normalize(arr, value)
    /\ last' = [NoCall EXCEPT !.op = "set_normalize"]
    /\ UNCHANGED <<ref, other, out>>

\* arr.sum()
ImportSum ==
    /\ InBounds(arr)
    /\ arr' = sum(arr).a
    /\ last' = [NoCall EXCEPT !.op = "sum"]
    /\ UNCHANGED <<ref, other, out>>

\* arr.add_from_bowtie(fh, mapfunc, min_length, max_length, offset=offset,
\* value=value); ref keeps the array as it was before the call.  The array
\* holds at most MaxMass - 2 before the call, and a normalized array imports
\* files of one alignment, which keeps the values stored within the integers
\* of the model checker.
Import ==
    /\ InBounds(arr)
    /\ SumCells(arr, Cells(arr))[1] <= MaxMass - 2
    /\ \E file \in ImportFiles, rule \in MapRules, bounds \in LengthBounds,
          offset \in ImportOffsets, value \in MapValues :
          /\ arr.normalize => Len(file) = 1
          /\ arr' = add_from_bowtie(arr, file, rule, bounds[1], bounds[2], offset, value).a
          /\ last' = [file |-> file, min_length |-> bounds[1], max_length |-> bounds[2],
                      offset |-> offset, value |-> value] @@
                     [NoCall EXCEPT
                         !.op = "add_from_bowtie", !.func = rule,
                         !.exc = add_from_bowtie(arr, file, rule, bounds[1], bounds[2],
                                                 offset, value).exc]
    /\ ref' = arr
    /\ UNCHANGED <<other, out>>

NextImport ==
    \/ ImportSet
    \/ ImportSetNormalize
    \/ ImportSum
    \/ Import

SpecImport == InitImport /\ [][NextImport]_vars

----------------------------------------------------------------------------
(* sets on declared and undeclared strands of a normalized array *)

InitStrand ==
    /\ arr \in {NewArray(k, cl, _DEFAULT_STRANDS, MinChrSize) :
                    k \in Kinds, cl \in {<<>>, GivenLengths}}
    /\ ref = arr
    /\ other = None
    /\ out = None
    /\ last = NoCall

\* arr[GenomicSegment(chrom, 0, 1, strand)] = 1; ref keeps the array as it
\* was before the call
StrandSetItem ==
    /\ \E chrom \in Chroms, strand \in Strands :
          /\ arr' = setitem(arr, chrom, strand, 0, 1, Scalar(1), TRUE).a
          /\ last' = Call("set", chrom, strand, 0, 1, TRUE, Scalar(1), arr,
                          setitem(arr, chrom, strand, 0, 1, Scalar(1), TRUE))
    /\ ref' = arr
    /\ UNCHANGED <<other, out>>

\* arr.set_normalize(value)
StrandSetNormalize ==
    /\ \E value \in BOOLEAN :
          /\ arr' = set_normalize(arr, value)
          /\ last' = Call("set_normalize", "", "", 0, 0, value, NoVal, arr,
                          Outcome(arr', <<>>, "none", FALSE))
    /\ ref' = arr
    /\ UNCHANGED <<other, out>>

NextStrand ==
    \/ StrandSetItem
    \/ StrandSetNormalize

SpecStrand == InitStrand /\ [][NextStrand]_vars

----------------------------------------------------------------------------
(* the alignment-backed array: filters, queries and the conversion *)

\* the length of the chromosome the files describe
BamLength == MinChrSize + 1

\* a file with a read at the first and one at the last position of chrA,
\* and a file whose header also names chrB
BamFileOne ==
    [lengths |-> ("chrA" :> BamLength),
     reads   |-> {Alignment("r1", "chrA", 0, 3, FALSE),
                  Alignment("r3", "chrA", 1, 3, TRUE),
                  Alignment("r4", "chrA", BamLength - 1, BamLength, FALSE)}]

BamFileTwo ==
    [lengths |-> ("chrA" :> BamLength - 1) @@ ("chrB" :> MinChrSize),
     reads   |-> {Alignment("r2", "chrA", 1, 3, FALSE),
                  Alignment("r5", "chrA", BamLength - 2, BamLength - 1, FALSE)}]

BamFileLists == {<<BamFileOne>>, <<BamFileTwo>>, <<BamFileOne, BamFileTwo>>}

FilterNames == {"size", "extra"}

FilterFuncs == {"at_least_2", "at_most_2"}

\* the intervals queried
BamQueries ==
    {<<c, s, iv>> \in Chroms \X Strands \X {<<0, BamLength>>, <<1, 3>>} :
        c = "chrB" => iv = <<1, 3>>}

\* the record of a call on the alignment-backed array
BamCall(op, chrom, strand, iv, roi_order, q, exc) ==
    [reads |-> q.reads, handed |-> q.handed] @@
    [NoCall EXCEPT !.op = op, !.chrom = chrom, !.strand = strand,
                   !.start = iv[1], !.end = iv[2], !.roi_order = roi_order,
                   !.res = q.counts, !.exc = exc]

NoQuery == [reads |-> {}, counts |-> <<>>, handed |-> {}, mapped |-> FALSE]

\* ref keeps the registry as the calls made so far define it: the function
\* bound to every name added and not removed since, and the names in the
\* order they were first added
InitBam ==
    /\ arr \in {BAMGenomeArray(fl, m) : fl \in BamFileLists, m \in MapRules}
    /\ ref = [bound |-> <<>>, order |-> <<>>]
    /\ other = None
    /\ out = None
    /\ last = NoCall

\* arr.add_filter(name, func)
AddFilter ==
    /\ \E name \in FilterNames, func \in FilterFuncs :
          /\ arr' = add_filter(arr, name, func)
          /\ ref' = [bound |-> (name :> func) @@ ref.bound,
                     order |-> IF name \in DOMAIN ref.bound THEN ref.order
                               ELSE Append(ref.order, name)]
          /\ last' = BamCall("add_filter", name, "", <<0, 0>>, TRUE, NoQuery, "none")
    /\ out' = None
    /\ UNCHANGED other

\* arr.remove_filter(name)
RemoveFilter ==
    /\ \E name \in FilterNames :
          /\ arr' = remove_filter(arr, name).a
          /\ ref' = [bound |-> [n \in DOMAIN ref.bound \ {name} |-> ref.bound[n]],
                     order |-> SelectSeq(ref.order, LAMBDA n : n # name)]
          /\ last' = BamCall("remove_filter", name, "", <<0, 0>>, TRUE, NoQuery,
                             remove_filter(arr, name).exc)
    /\ out' = None
    /\ UNCHANGED other

\* arr.get_reads_and_counts(roi, roi_order)
Query ==
    /\ \E x \in BamQueries, roi_order \in BOOLEAN :
          last' = BamCall("get_reads_and_counts", x[1], x[2], x[3], roi_order,
                          get_reads_and_counts(arr, x[1], x[2], x[3][1], x[3][2], roi_order),
                          "none")
    /\ out' = None
    /\ UNCHANGED <<arr, ref, other>>

\* arr.set_mapping(mapping_function)
SetMapping ==
    /\ \E m \in MapRules : arr' = set_mapping(arr, m)
    /\ last' = BamCall("set_mapping", "", "", <<0, 0>>, TRUE, NoQuery, "none")
    /\ out' = None
    /\ UNCHANGED <<ref, other>>

\* arr.set_normalize(value)
BamSetNormalize ==
    /\ \E value \in BOOLEAN : arr' = set_normalize(arr, value)
    /\ last' = BamCall("set_normalize", "", "", <<0, 0>>, TRUE, NoQuery, "none")
    /\ out' = None
    /\ UNCHANGED <<ref, other>>

\* arr.set_sum(val), val being a total taken from another dataset
BamSetSum ==
    /\ arr' = set_sum(arr, Num(mapped_total(arr.bamfiles) + 2))
    /\ last' = BamCall("set_sum", "", "", <<0, 0>>, TRUE, NoQuery, "none")
    /\ out' = None
    /\ UNCHANGED <<ref, other>>

\* out = arr.to_genome_array(array_type)
ToGenomeArray ==
    /\ \E array_type \in Kinds : out' = to_genome_array(arr, array_type)
    /\ last' = BamCall("to_genome_array", "", "", <<0, 0>>, TRUE, NoQuery, "none")
    /\ UNCHANGED <<arr, ref, other>>

NextBam ==
    \/ AddFilter
    \/ RemoveFilter
    \/ Query
    \/ SetMapping
    \/ BamSetNormalize
    \/ BamSetSum
    \/ ToGenomeArray

SpecBam == InitBam /\ [][NextBam]_vars

----------------------------------------------------------------------------
(* bedGraph export of the three array types *)

\* the single-position writes made before an export
ExportSetInputs ==
    {<<"chrA", p>> : p \in 0..(MinChrSize - 1)} \cup {<<"chrB", 0>>}

ExportValues == {Scalar(0), Scalar(1), Scalar(2)}

\* the window sizes of the alignment-backed export
WindowSizes == {1, 2, BamLength}

InitExport ==
    /\ arr \in {NewArray(k, ("chrA" :> BamLength) @@ ("chrB" :> MinChrSize),
                          _DEFAULT_STRANDS, MinChrSize) : k \in Kinds}
               \cup {BAMGenomeArray(fl, m) : fl \in BamFileLists, m \in MapRules}
    /\ ref = None
    /\ other = None
    /\ out = None
    /\ last = NoCall

\* arr[GenomicSegment(chrom, p, p+1, "+")] = value
ExportSet ==
    /\ arr.kind # "bam"
    /\ \E x \in ExportSetInputs, value \in ExportValues :
          /\ arr' = setitem(arr, x[1], "+", x[2], x[2] + 1, value, TRUE).a
          /\ last' = [NoCall EXCEPT !.op = "set"]
    /\ UNCHANGED <<ref, other, out>>

\* arr.to_bedgraph(fh, trackname, strand, window_size); last.res is the
\* sequence of data lines written
ToBedgraph ==
    /\ \E strand \in {"+", "-"}, window_size \in WindowSizes :
          last' = [NoCall EXCEPT !.op = "to_bedgraph", !.strand = strand,
                                 !.end = window_size,
                                 !.res = to_bedgraph(arr, strand, window_size).res,
                                 !.exc = to_bedgraph(arr, strand, window_size).exc]
    /\ UNCHANGED <<arr, ref, other, out>>

NextExport ==
    \/ ExportSet
    \/ ToBedgraph

SpecExport == InitExport /\ [][NextExport]_vars

----------------------------------------------------------------------------
(* properties of get and set, checked under Spec *)

\* the vector a get over [start, end) is expected to return after val was
\* written there: val itself, or the scalar val at every position
Written(val, start, end) ==
    IF val.scalar THEN [i \in 1..(end - start) |-> val.v[1]] ELSE val.v

\* the last call was made on the dense array with a declared strand
DenseCall(op) ==
    /\ last.op = op
    /\ arr.kind = "dense"
    /\ last.strand \in StrandSet(arr)

\* C1: on a freshly constructed dense array (no chromosome lengths given), a
\* get over any interval of a declared strand, its end beyond the minimum
\* chromosome size included, returns end - start zeros.
C1_FreshGetReturnsZeros ==
    (DenseCall("get") /\ last.fresh) =>
        /\ last.exc = "none"
        /\ last.res = [i \in 1..(last.end - last.start) |-> Zero]

\* C2: on a dense array with normalization off, a set of a scalar or of a
\* vector of the interval's length over an interval of a declared strand that
\* lies inside the chromosome's current buffer, followed at once by a get of
\* the same interval, reads back what was written.
C2_RoundTrip ==
    (DenseCall("set") /\ ~arr.normalize /\ last.prelen >= last.end) =>
        /\ last.exc = "none"
        /\ LET g == getitem(arr, last.chrom, last.strand, last.start, last.end, TRUE)
           IN  /\ g.exc = "none"
               /\ g.res = Written(last.val, last.start, last.end)

\* C2's case: a vector of two different values written to the minus strand
\* inside the buffer and read back
C2_Witness ==
    /\ DenseCall("set")
    /\ last.strand = "-"
    /\ last.prelen >= last.end
    /\ ~last.val.scalar
    /\ Len(last.val.v) = 2
    /\ last.val.v[1] # last.val.v[2]
    /\ getitem(arr, last.chrom, last.strand, last.start, last.end, TRUE).res = last.val.v

\* C3: element i (counted from 0) of the vector a dense or sparse get
\* returns for [s, e) is the value stored at genome position e-1-i when the
\* strand is minus and roi_order is True, and at position s+i otherwise.
C3_StrandOrder ==
    (last.op = "get" /\ last.exc = "none" /\ ~arr.normalize) =>
        \A i \in 1..Len(last.res) :
            last.res[i] =
                At(arr.chroms[last.chrom][last.strand],
                   IF last.strand = "-" /\ last.roi_order
                   THEN last.end - i
                   ELSE last.start + i - 1)

\* C3's case: a minus-strand get in interval order over two positions that
\* hold different values
C3_Witness ==
    /\ last.op = "get"
    /\ last.strand = "-"
    /\ last.roi_order
    /\ Len(last.res) = 2
    /\ last.res[1] # last.res[2]
    /\ last.res[1] = At(arr.chroms[last.chrom]["-"], last.end - 1)

\* C4: when a get or a set on a chromosome that is already in a dense array
\* resizes it, every value stored before, on every strand, is still at its
\* position (but for the positions the set writes), and every position added
\* holds zero unless the set writes it.
C4_GrowthPreserves ==
    [][(last'.op \in {"get", "set"} /\ arr.kind = "dense" /\ last'.resized
          /\ last'.prelen >= 0) =>
        \A s \in StrandSet(arr) :
            LET old == arr.chroms[last'.chrom][s]
                new == arr'.chroms[last'.chrom][s]
                written == IF last'.op = "set" /\ s = last'.strand
                                /\ last'.exc = "none"
                           THEN last'.start..(last'.end - 1) ELSE {}
            IN  /\ new.len > old.len
                /\ \A p \in DOMAIN old.nz \ written : At(new, p) = old.nz[p]
                /\ \A p \in DOMAIN new.nz \ written : p \in DOMAIN old.nz
                /\ \A p \in written : At(new, p) =
                       Written(genome_ordered(last'.val, s, TRUE),
                               last'.start, last'.end)[p - last'.start + 1]]_vars

\* C4's case: a set resized a dense chromosome whose other strand held a
\* value, and the value is still there
C4_Witness ==
    /\ DenseCall("set")
    /\ last.resized
    /\ last.prelen >= 0
    /\ \E s \in StrandSet(arr) \ {last.strand} :
          /\ arr.chroms[last.chrom][s].len > last.prelen
          /\ \E p \in DOMAIN arr.chroms[last.chrom][s].nz : p < last.prelen

\* C5: a dense set over an interval of a declared strand, a chromosome not
\* yet in the array and an end beyond min_chr_size included, leaves the
\* chromosome in the array with a length of at least the interval's end, and
\* a get of the interval returns what was written.
C5_SetAccommodates ==
    DenseCall("set") =>
        /\ last.exc = "none"
        /\ last.chrom \in keys(arr)
        /\ lengths(arr)[last.chrom] >= last.end
        /\ getitem(arr, last.chrom, last.strand, last.start, last.end, TRUE).res
              = Written(last.val, last.start, last.end)

\* every strand buffer of every chromosome has the same length
SameLengths(a) ==
    \A c \in keys(a) : \A s, t \in StrandSet(a) :
        a.chroms[c][s].len = a.chroms[c][t].len

\* C6: through any sequence of gets and sets on a dense or sparse array built
\* empty or from a chromosome-length map, the strand buffers of a chromosome
\* all have one length, and no chromosome ever gets shorter or disappears.
C6_LengthsAgreeAndGrow ==
    [][/\ SameLengths(arr) /\ SameLengths(arr')
       /\ \A c \in keys(arr) :
             c \in keys(arr') /\ lengths(arr')[c] >= lengths(arr)[c]]_vars

\* C6's case: a call resized a chromosome that has more than one strand
C6_Witness ==
    /\ last.op \in {"get", "set"}
    /\ last.resized
    /\ last.prelen >= 0
    /\ lengths(arr)[last.chrom] > last.prelen
    /\ Cardinality(StrandSet(arr)) > 1

----------------------------------------------------------------------------
(* properties of the sum and of the normalization, checked under SpecSum *)

\* the sum of every value stored in the array
RawTotal(a) == SumCells(a, Cells(a))

\* the genome position that element i (counted from 1) of the vector
\* returned by the last get stands for
PositionOf(i) ==
    IF last.strand = "-" /\ last.roi_order THEN last.end - i ELSE last.start + i - 1

\* C7: on a dense or sparse array, a sum() that follows a mutation (a set or
\* an import) with no set_sum after that mutation returns the sum of every
\* value stored on every chromosome and strand, whatever an earlier sum()
\* cached or an earlier set_sum installed.
C7_SumAfterMutation ==
    (last.op = "sum" /\ last.mutated) => last.res = <<RawTotal(arr)>>

\* C7's case: a sum() after a mutation returned a total that is not zero
C7_Witness ==
    /\ last.op = "sum"
    /\ last.mutated
    /\ last.res = <<RawTotal(arr)>>
    /\ RawTotal(arr) # Zero
    /\ keys(arr) = Chroms

\* C8: with normalization on and a sum() that is not zero, a get returns
\* every stored value times 1,000,000 divided by sum(); and sum() returns the
\* same total with the flag on as with the flag off.
C8_NormalizationLaw ==
    /\ (last.op = "get" /\ last.exc = "none" /\ arr.normalize /\ arr.sum # Zero) =>
          \A i \in 1..Len(last.res) :
              last.res[i] =
                  FDiv(FMul(Num(PerMillion),
                            At(arr.chroms[last.chrom][last.strand], PositionOf(i))),
                       arr.sum)
    /\ sum(set_normalize(arr, TRUE)).value = sum(set_normalize(arr, FALSE)).value

\* C8's case: with a sum of 2,000,000 installed and normalization on, a get
\* read a stored 2 as 1.0
C8_Witness ==
    /\ last.op = "get"
    /\ arr.normalize
    /\ arr.sum = Num(2000000)
    /\ \E i \in 1..Len(last.res) :
          /\ At(arr.chroms[last.chrom][last.strand], PositionOf(i)) = Num(2)
          /\ last.res[i] = Num(1)

----------------------------------------------------------------------------
(* the stored values against the normalization flag, checked under SpecRef *)

\* what is stored: per chromosome and strand, the values that are not zero
RawValues(a) ==
    [c \in keys(a) |-> [s \in StrandSet(a) |-> a.chroms[c][s].nz]]

\* C9: after any sequence of set, add_from_bowtie, add_from_wiggle and
\* set_normalize calls on a dense or sparse array, the stored values are those
\* the same sequence without its set_normalize calls stores.
C9_NormalizationNotPersisted == RawValues(arr) = RawValues(ref)

----------------------------------------------------------------------------
(* the combination of two dense arrays, checked under SpecOp *)

\* the value an operand holds at a position, zero where it has no buffer
OperandAt(a, chrom, strand, p) ==
    IF chrom \in keys(a) /\ strand \in StrandSet(a)
    THEN At(a.chroms[chrom][strand], p)
    ELSE Zero

\* the length of an operand's buffer, zero where it has none
OperandLen(a, chrom, strand) ==
    IF chrom \in keys(a) /\ strand \in StrandSet(a)
    THEN a.chroms[chrom][strand].len
    ELSE 0

\* C10: apply_operation in mode 'all' on two dense arrays, and arr + other
\* and arr * other, raise nothing and return an array that has every
\* chromosome and strand of either operand; each of its buffers has the length
\* of the longer operand buffer and holds func of the two operands' values,
\* zero standing for a buffer an operand lacks or for the positions past its
\* end.
C10_AllModeUnion ==
    (last.op \in {"apply_operation", "add", "mul"} /\ last.mode = "all") =>
        /\ last.exc = "none"
        /\ keys(out) = keys(arr) \cup keys(other)
        /\ StrandSet(out) = StrandSet(arr) \cup StrandSet(other)
        /\ \A chrom \in keys(out), strand \in StrandSet(out) :
              /\ out.chroms[chrom][strand].len =
                     Max(OperandLen(arr, chrom, strand), OperandLen(other, chrom, strand))
              /\ \A p \in 0..(out.chroms[chrom][strand].len - 1) :
                     At(out.chroms[chrom][strand], p) =
                         Apply(last.func, OperandAt(arr, chrom, strand, p),
                                          OperandAt(other, chrom, strand, p))

\* the chromosomes and the strands both operands hold
CommonChroms == keys(arr) \cap keys(other)

CommonStrands == StrandSet(arr) \cap StrandSet(other)

\* C11: apply_operation in mode 'truncate' on two dense arrays raises
\* nothing and returns an array that has exactly the chromosomes and the
\* strands both operands have (no chromosome when they share none); each of
\* its buffers has the length of the shorter operand buffer and holds func of
\* the two operands' values at every position.
C11_TruncateCommon ==
    (last.op = "apply_operation" /\ last.mode = "truncate" /\ last.val = NoVal) =>
        /\ last.exc = "none"
        /\ keys(out) = CommonChroms
        /\ StrandSet(out) = CommonStrands
        /\ \A chrom \in keys(out), strand \in StrandSet(out) :
              /\ out.chroms[chrom][strand].len =
                     Min(OperandLen(arr, chrom, strand), OperandLen(other, chrom, strand))
              /\ \A p \in 0..(out.chroms[chrom][strand].len - 1) :
                     At(out.chroms[chrom][strand], p) =
                         Apply(last.func, OperandAt(arr, chrom, strand, p),
                                          OperandAt(other, chrom, strand, p))

\* the two operands have the same chromosomes, the same strands and the
\* same length on every chromosome
SameDimensions ==
    /\ keys(arr) = keys(other)
    /\ StrandSet(arr) = StrandSet(other)
    /\ \A chrom \in keys(arr) : lengths(arr)[chrom] = lengths(other)[chrom]

\* C12: apply_operation in mode 'same' on two dense arrays raises and
\* returns nothing when the operands differ in chromosomes, strands or a
\* chromosome's length; when they agree in all three it raises nothing and
\* the result holds func of the two stored values at every position of
\* every chromosome and strand.
C12_SameModeChecksDimensions ==
    (last.op = "apply_operation" /\ last.mode = "same" /\ last.val = NoVal) =>
        IF SameDimensions
        THEN /\ last.exc = "none"
             /\ keys(out) = keys(arr)
             /\ StrandSet(out) = StrandSet(arr)
             /\ \A chrom \in keys(arr), strand \in StrandSet(arr) :
                   \A p \in 0..(lengths(arr)[chrom] - 1) :
                       At(out.chroms[chrom][strand], p) =
                           Apply(last.func, At(arr.chroms[chrom][strand], p),
                                            At(other.chroms[chrom][strand], p))
        ELSE last.exc # "none" /\ out = None

\* what an operation must leave alone in an operand: its chromosomes, the
\* length and the stored values of every buffer, and its normalization flag
OperandState(a) == [chroms |-> a.chroms, normalize |-> a.normalize]

Operations == {"apply_operation", "add", "mul", "sub"}

\* C13: apply_operation and the operators +, * and -, in every mode and
\* with a scalar or an array operand, leave both operands with the
\* chromosomes, the buffer lengths, the stored values and the normalization
\* flag they had before the call.
C13_OperandsUnchanged ==
    [][last'.op \in Operations =>
          /\ OperandState(arr') = OperandState(arr)
          /\ OperandState(other') = OperandState(other)]_vars

----------------------------------------------------------------------------
(* the comparison of two dense arrays, checked under SpecEq *)

\* |x| on a float
FAbs(x) == <<Abs(x[1]), x[2]>>

\* the positions of a chromosome and strand where an array holds a nonzero
\* value, none where it has no such buffer
NonzeroAt(a, chrom, strand) ==
    IF chrom \in keys(a) /\ strand \in StrandSet(a)
    THEN DOMAIN a.chroms[chrom][strand].nz
    ELSE {}

\* on every chromosome and strand of either array, the two arrays hold
\* nonzero values at the same positions and the values there differ by at
\* most the tolerance
AgreeWithin(tol) ==
    \A chrom \in keys(arr) \cup keys(other) :
        \A strand \in StrandSet(arr) \cup StrandSet(other) :
            /\ NonzeroAt(arr, chrom, strand) = NonzeroAt(other, chrom, strand)
            /\ \A p \in NonzeroAt(arr, chrom, strand) :
                   FLe(FAbs(FSub(OperandAt(arr, chrom, strand, p),
                                 OperandAt(other, chrom, strand, p))), tol)

\* C14: arr == other is True exactly when, on every chromosome and strand
\* of either array, the nonzero positions are the same and the values at
\* each of them differ by at most the tolerance in absolute value, whatever
\* the lengths of the buffers.
C14_EqualityIff ==
    last.op = "eq" => (last.res = <<TRUE>> <=> AgreeWithin(Tolerance))

----------------------------------------------------------------------------
(* the mode of apply_operation, checked under SpecModes *)

KnownModes == {"same", "all", "truncate"}

\* C15: apply_operation with an array operand and a mode other than
\* 'same', 'all' and 'truncate' raises and returns nothing, on a dense and
\* on a sparse array.
C15_UnknownModeRaises ==
    (last.op = "apply_operation" /\ last.mode \notin KnownModes) =>
        last.exc # "none" /\ out = None

----------------------------------------------------------------------------
(* a set on a strand the array does not have, checked under Spec *)

\* every stored value with its chromosome, strand and position
StoredValues(a) == {<<x, a.chroms[x[1]][x[2]].nz[x[3]]>> : x \in Cells(a)}

\* C16: a set over an interval whose strand the dense or sparse array was
\* not built with raises, whether the chromosome is in the array or not,
\* and the stored values are those held before the call.
C16_UndeclaredStrandRaises ==
    [][(last'.op = "set" /\ last'.strand \notin StrandSet(arr)) =>
          /\ last'.exc # "none"
          /\ StoredValues(arr') = StoredValues(arr)]_vars

\* C16's case: a set on the unstranded strand of a chromosome that holds
\* values raised
C16_Witness ==
    /\ last.op = "set"
    /\ last.strand = "."
    /\ last.strand \notin StrandSet(arr)
    /\ last.exc # "none"
    /\ last.prelen >= 0
    /\ \E x \in Cells(arr) : x[1] = last.chrom

----------------------------------------------------------------------------
(* the mapping rules, checked under SpecMap *)

\* the position counted offset bases inwards from the 5' end of the last
\* alignment, and from its 3' end
FromFivePrime ==
    IF last.strand = "-" THEN last.end - 1 - last.offset ELSE last.start + last.offset

FromThreePrime ==
    IF last.strand = "-" THEN last.start + last.offset ELSE last.end - 1 - last.offset

\* the one pair a rule returns for a position
OnePair(position) ==
    <<<<Segment(last.chrom, position, position + 1, last.strand), last.value>>>>

\* C20: for an alignment over [s, e) and an offset k of at most e - s,
\* five_prime_map returns one pair whose interval is the position s+k on
\* the plus or the unstranded strand and e-1-k on the minus strand, and
\* three_prime_map the position e-1-k on the plus or the unstranded strand
\* and s+k on the minus strand, on the alignment's chromosome and strand and
\* with the value as weight; for a larger k both return the empty list.
C20_EndMaps ==
    (last.op \in MapRules) =>
        IF last.offset > last.end - last.start THEN last.res = <<>>
        ELSE IF last.op = "five_prime_map" THEN last.res = OnePair(FromFivePrime)
        ELSE last.res = OnePair(FromThreePrime)

\* C20's case: offset 2 on the minus-strand alignment [50, 70) gave the
\* 5' position 67
C20_Witness ==
    /\ last.op = "five_prime_map"
    /\ last.strand = "-"
    /\ last.start = 50 /\ last.end = 70
    /\ last.offset = 2
    /\ last.res = <<<<Segment("chrA", 67, 68, "-"), Num(1)>>>>

----------------------------------------------------------------------------
(* the alignment-backed array, checked under SpecBam *)

\* the names of the registered filters, in the order of the registry
RegisteredNames == [i \in DOMAIN arr.filters |-> arr.filters[i][1]]

\* the alignments a query must hand to the mapping function: those fetched
\* that match the strand of the interval and that every registered filter
\* accepts
Eligible(chrom, strand, start, end) ==
    {r \in fetched(arr, chrom, start, end) :
        /\ (strand = "+" => ~r.is_reverse)
        /\ (strand = "-" => r.is_reverse)
        /\ \A n \in DOMAIN ref.bound : filter_accepts(ref.bound[n], r)}

\* C17: after any add_filter and remove_filter calls the registry holds the
\* names added and not removed since, in the order they were added, each
\* with the function last added under it; a query hands the mapping function
\* the fetched alignments that match the interval's strand (all of them for
\* the unstranded strand) and pass every registered filter; on a chromosome
\* none of the files has, it returns no reads and len(roi) zeros.
C17_FiltersAndQuery ==
    /\ RegisteredNames = ref.order
    /\ \A i \in DOMAIN arr.filters : arr.filters[i][2] = ref.bound[arr.filters[i][1]]
    /\ (last.op = "get_reads_and_counts") =>
          IF last.chrom \in DOMAIN arr.chr_lengths
          THEN last.handed = Eligible(last.chrom, last.strand, last.start, last.end)
          ELSE /\ last.reads = {}
               /\ last.res = [i \in 1..(last.end - last.start) |-> Zero]

\* C17's case: with two filters registered, one of them added twice, a
\* plus-strand query handed over some of the alignments on its strand and
\* held back another
C17_Witness ==
    /\ last.op = "get_reads_and_counts"
    /\ last.strand = "+"
    /\ Len(arr.filters) = 2
    /\ arr.filters[1] = <<"size", "at_most_2">>
    /\ last.handed # {}
    /\ \E r \in fetched(arr, last.chrom, last.start, last.end) :
          ~r.is_reverse /\ r \notin last.handed
    /\ \E r \in fetched(arr, last.chrom, last.start, last.end) : r.is_reverse

\* C18: with normalization off, the array to_genome_array returns holds, at
\* every position of every chromosome and strand of the alignment-backed
\* array, the last position of the chromosome included, the count the
\* alignment-backed array reports there.
C18_MaterializesWholeView ==
    (last.op = "to_genome_array" /\ ~arr.normalize) =>
        \A chrom \in DOMAIN arr.chr_lengths, strand \in StrandSet(arr) :
            \A p \in 0..(arr.chr_lengths[chrom] - 1) :
                At(out.chroms[chrom][strand], p) =
                    BAMGenomeArray_getitem(arr, chrom, strand, p, p + 1, FALSE)[1]

----------------------------------------------------------------------------
(* bedGraph export, checked under SpecExport *)

\* the chromosomes of arr and their lengths
ExportLengths ==
    IF arr.kind = "bam" THEN arr.chr_lengths
    ELSE [c \in keys(arr) |-> arr.chroms[c]["+"].len]

\* the value arr holds at one position
HeldAt(chrom, strand, p) ==
    IF arr.kind = "bam"
    THEN BAMGenomeArray_getitem(arr, chrom, strand, p, p + 1, FALSE)[1]
    ELSE At(arr.chroms[chrom][strand], p)

\* one line for every maximal run of adjacent positions holding the same
\* nonzero value
MaximalRuns(strand) ==
    {<<c, s, e, HeldAt(c, strand, s)>> :
        <<c, s, e>> \in
            {x \in (DOMAIN ExportLengths) \X (0..BamLength) \X (0..BamLength) :
                /\ x[2] < x[3]
                /\ x[3] <= ExportLengths[x[1]]
                /\ HeldAt(x[1], strand, x[2]) # Zero
                /\ \A p \in x[2]..(x[3] - 1) :
                      HeldAt(x[1], strand, p) = HeldAt(x[1], strand, x[2])
                /\ (x[2] > 0 =>
                      HeldAt(x[1], strand, x[2] - 1) # HeldAt(x[1], strand, x[2]))
                /\ (x[3] < ExportLengths[x[1]] =>
                      HeldAt(x[1], strand, x[3]) # HeldAt(x[1], strand, x[2]))}}

\* C19: the data lines of a bedGraph export of a dense, sparse or
\* alignment-backed array are exactly one line per maximal run of adjacent
\* positions holding the same nonzero value, with start < end; no line has
\* value zero or an empty range, and the lines of the alignment-backed array
\* are the same for every window_size.
C19_BedgraphRuns ==
    (last.op = "to_bedgraph" /\ last.exc = "none") =>
        /\ {last.res[i] : i \in DOMAIN last.res} = MaximalRuns(last.strand)
        /\ Len(last.res) = Cardinality(MaximalRuns(last.strand))

----------------------------------------------------------------------------
(* the mapping rules, checked under SpecRules and SpecMap *)

\* the alignment of the last call
LastFeature == Segment(last.chrom, last.start, last.end, last.strand)

\* the value the last call apportions
LastValue == IF "value" \in DOMAIN last.kwargs THEN last.kwargs["value"] ELSE Num(1)

\* the length left after the nibble is taken from both ends
Remaining == (last.end - last.start) - 2 * last.kwargs["nibble"]

\* C21: center_map with nibble n and zero offset on an alignment over [s, e)
\* of length L returns the empty list when L - 2n <= 0, and otherwise one
\* pair whose interval is [s+n, e-n) on the alignment's chromosome and
\* strand and whose weight is value / (L - 2n), so that the weight times
\* the length of the interval is value.
C21_CenterMap ==
    (/\ last.op = "center_map"
     /\ "nibble" \in DOMAIN last.kwargs
     /\ ("offset" \in DOMAIN last.kwargs => last.kwargs["offset"] = 0)) =>
        /\ last.exc = "none"
        /\ IF Remaining <= 0 THEN last.res = <<>>
           ELSE /\ last.res =
                      <<<<Segment(last.chrom, last.start + last.kwargs["nibble"],
                                  last.end - last.kwargs["nibble"], last.strand),
                          FDiv(LastValue, Num(Remaining))>>>>
                /\ FMul(last.res[1][2], Num(last.res[1][1].end - last.res[1][1].start))
                      = LastValue

\* C21's case: length 10 at [100, 110), nibble 2 and value 1.0 gave
\* [102, 108) with weight 1/6
C21_Witness ==
    /\ last.op = "center_map"
    /\ last.start = 100 /\ last.end = 110
    /\ last.strand = "+"
    /\ last.kwargs = ("nibble" :> 2) @@ ("offset" :> 0) @@ ("value" :> Num(1))
    /\ last.res = <<<<Segment("chrA", 102, 108, "+"), Float(1, 6)>>>>

\* the stated defaults of the optional parameters
DefaultKwargs == ("offset" :> 0) @@ ("value" :> Num(1)) @@ ("nibble" :> 0)

\* C22: each of the four mapping rules, called with any of its optional
\* parameters omitted, returns without an error what it returns when the
\* stated default (offset=0, value=1.0, nibble=0) is passed for each omitted
\* parameter; center_map without nibble maps the untrimmed alignment.
C22_DefaultsForOmitted ==
    (last.op \in AllRules) =>
        /\ last.exc = "none"
        /\ last.res = rule_call(last.op, LastFeature, last.kwargs @@ DefaultKwargs).res

\* the offset the table of the last call gives the alignment's length
LookedUp ==
    IF last.end - last.start \in DOMAIN last.kwargs["offset"].by_length
    THEN last.kwargs["offset"].by_length[last.end - last.start]
    ELSE IF last.kwargs["offset"].default = None THEN -1
    ELSE last.kwargs["offset"].default[1]

\* the table has an entry for the alignment's length, or a default
HasOffset ==
    \/ last.end - last.start \in DOMAIN last.kwargs["offset"].by_length
    \/ last.kwargs["offset"].default # None

\* C26: variable_five_prime_map takes the offset the table has under the
\* alignment's length, or else the table's 'default' entry; with neither it
\* returns the empty list; otherwise it returns one pair at start+offset
\* (plus or unstranded) or end-1-offset (minus) with weight value, also
\* when the offset is at least the read length.
C26_VariableOffset ==
    (last.op = "variable_five_prime_map") =>
        /\ last.exc = "none"
        /\ IF ~HasOffset THEN last.res = <<>>
           ELSE last.res =
                  <<<<Segment(last.chrom,
                              IF last.strand = "-" THEN last.end - 1 - LookedUp
                              ELSE last.start + LookedUp,
                              (IF last.strand = "-" THEN last.end - 1 - LookedUp
                               ELSE last.start + LookedUp) + 1,
                              last.strand),
                      LastValue>>>>

\* C26's case: a minus-strand alignment of length 1, absent from the table,
\* took the default offset 12, beyond its length, and was still mapped
C26_Witness ==
    /\ last.op = "variable_five_prime_map"
    /\ last.strand = "-"
    /\ last.start = 0 /\ last.end = 1
    /\ last.kwargs["offset"] = [by_length |-> (2 :> 1), default |-> <<12>>]
    /\ last.res = <<<<Segment("chrA", -12, -11, "-"), LastValue>>>>

\* C30: when five_prime_map or three_prime_map returns a pair for an
\* alignment over [s, e), its position p satisfies s <= p < e, for every
\* offset >= 0, the read length included, and every strand.
C30_PositionInsideAlignment ==
    (last.op \in MapRules /\ last.res # <<>>) =>
        /\ last.start <= last.res[1][1].start
        /\ last.res[1][1].start < last.end

----------------------------------------------------------------------------
(* imports from an alignment file, checked under SpecImport *)

\* the records of the last file whose length is within the bounds
WithinBounds ==
    SelectSeq(last.file,
              LAMBDA r : /\ r.end - r.start >= last.min_length
                         /\ r.end - r.start <= last.max_length)

\* the pairs the rule returns for the records within the bounds
RECURSIVE PairsOf(_)
PairsOf(records) ==
    IF records = <<>> THEN <<>>
    ELSE mapfunc(last.func, records[1], last.offset, last.value)
         \o PairsOf(Tail(records))

\* the number of records within the bounds that the rule does not discard
RECURSIVE Contributing(_)
Contributing(records) ==
    IF records = <<>> THEN 0
    ELSE (IF mapfunc(last.func, records[1], last.offset, last.value) = <<>>
          THEN 0 ELSE 1)
         + Contributing(Tail(records))

\* the weight the pairs add at one position
RECURSIVE AddedAt(_, _, _, _)
AddedAt(pairs, chrom, strand, p) ==
    IF pairs = <<>> THEN Zero
    ELSE FAdd(IF /\ pairs[1][1].chrom = chrom
                 /\ pairs[1][1].strand = strand
                 /\ pairs[1][1].start <= p
                 /\ p < pairs[1][1].end
              THEN pairs[1][2] ELSE Zero,
              AddedAt(Tail(pairs), chrom, strand, p))

\* C23: add_from_bowtie adds, for every record whose length is within
\* [min_length, max_length] and that the rule does not discard, the rule's
\* weight to the value held at every position of each returned interval;
\* every other position keeps its value; and with normalization off sum()
\* grows by value times the number of contributing records.
C23_ImportAccumulates ==
    (last.op = "add_from_bowtie" /\ last.exc = "none") =>
        /\ \A chrom \in Chroms, strand \in StrandSet(arr), p \in 0..(ImportLength - 1) :
              OperandAt(arr, chrom, strand, p) =
                  FAdd(OperandAt(ref, chrom, strand, p),
                       AddedAt(PairsOf(WithinBounds), chrom, strand, p))
        /\ (~ref.normalize =>
              sum(arr).value =
                  FAdd(sum(ref).value,
                       FMul(last.value, Num(Contributing(WithinBounds)))))

----------------------------------------------------------------------------
(* the growth of the buffers, checked under Spec *)

\* C24: a get or a set on a chromosome the dense or sparse array has changes
\* the length of its buffers only when the end of the interval exceeds that
\* length (an interval ending at the length leaves it as it is), and then
\* every strand of the chromosome gets a length of at least the end of the
\* interval plus 10000.
C24_GrowthRule ==
    (last.op \in {"get", "set"} /\ last.exc = "none" /\ last.prelen >= 0) =>
        IF last.end <= last.prelen
        THEN \A s \in StrandSet(arr) : arr.chroms[last.chrom][s].len = last.prelen
        ELSE \A s \in StrandSet(arr) :
                 arr.chroms[last.chrom][s].len >= last.end + GrowMargin

----------------------------------------------------------------------------
(* a set that raises, checked under SpecStrand *)

\* C29: a set that fails because the strand of the interval is not one the
\* dense or sparse array was built with leaves the normalization flag, the
\* chromosomes and every stored value as they were before the call.
C29_FailedSetChangesNothing ==
    (last.op = "set" /\ last.exc # "none" /\ last.strand \notin StrandSet(ref)) =>
        /\ arr.normalize = ref.normalize
        /\ keys(arr) = keys(ref)
        /\ StoredValues(arr) = StoredValues(ref)

----------------------------------------------------------------------------
(* operations on a normalized operand, checked under SpecModes *)

\* C25: when apply_operation is called, in any mode, on a dense or sparse
\* array whose normalization is on and returns, the array returned is the
\* one the call returns with normalization off, i.e. it is computed from
\* the stored values and not from normalized views, and the operand's
\* normalization flag is what it was before the call.
C25_RawValuesCombined ==
    [][(last'.op = "apply_operation" /\ last'.exc = "none" /\ arr.normalize) =>
          /\ arr'.normalize = arr.normalize
          /\ out' = array_apply_operation(set_normalize(arr, FALSE), other,
                                          last'.func, last'.mode).out]_vars

----------------------------------------------------------------------------
(* the modes of the sparse apply_operation, checked under SpecModes *)

\* the result has a buffer of the given length for the chromosome and the
\* strand, holding func of the operands' values at every position
ResultBuffer(chrom, strand, len) ==
    /\ out.chroms[chrom][strand].len = len
    /\ \A p \in 0..(len - 1) :
          At(out.chroms[chrom][strand], p) =
              Apply(last.func, OperandAt(arr, chrom, strand, p),
                               OperandAt(other, chrom, strand, p))

\* C27: apply_operation on two sparse arrays follows the contract of the
\* dense class in each mode: 'same' raises when the operands differ in
\* chromosomes, strands or lengths; 'all' returns the union of the
\* chromosomes and strands, zero-filled, every buffer as long as the longer
\* operand buffer; 'truncate' returns the chromosomes and strands common to
\* both, every buffer as long as the shorter operand buffer.
C27_SparseModes ==
    (arr.kind = "sparse" /\ last.op = "apply_operation") =>
        /\ (last.mode = "same" /\ ~SameDimensions) => last.exc # "none"
        /\ (last.mode = "all") =>
              /\ last.exc = "none"
              /\ keys(out) = keys(arr) \cup keys(other)
              /\ StrandSet(out) = StrandSet(arr) \cup StrandSet(other)
              /\ \A chrom \in keys(out), strand \in StrandSet(out) :
                    ResultBuffer(chrom, strand,
                                 Max(OperandLen(arr, chrom, strand),
                                     OperandLen(other, chrom, strand)))
        /\ (last.mode = "truncate") =>
              /\ last.exc = "none"
              /\ keys(out) = CommonChroms
              /\ StrandSet(out) = CommonStrands
              /\ \A chrom \in keys(out), strand \in StrandSet(out) :
                    ResultBuffer(chrom, strand,
                                 Min(OperandLen(arr, chrom, strand),
                                     OperandLen(other, chrom, strand)))

----------------------------------------------------------------------------
(* set_mapping, checked under SpecBam *)

\* C28: set_mapping on an alignment-backed array leaves the registered
\* filters, the normalization flag, the chromosome lengths and the value
\* sum() returns, a value installed with set_sum included, as they were
\* before the call.
C28_SetMappingOnly ==
    [][(last'.op = "set_mapping") =>
          /\ arr'.filters = arr.filters
          /\ arr'.normalize = arr.normalize
          /\ arr'.chr_lengths = arr.chr_lengths
          /\ arr'.sum = arr.sum]_vars

====
